---------------------------- MODULE Spec2Model ----------------------------
(***************************************************************************)
(* State-machine models of parts of the Babel toolchain:                   *)
(*   - NodePath removal (traverse/path/removal)                            *)
(*   - hasMinVersion of the runtime-helper substitution                    *)
(*   - createFlowUnionType                                                 *)
(*   - the class-static-block transform                                    *)
(*   - the optional-catch-binding transform                                *)
(*   - the generator's Printer                                             *)
(*   - validate of the node definitions                                    *)
(*   - the env preset and the targets helper's pretty printing             *)
(*   - the function-name helper                                            *)
(*   - the evaluation order of class and accessor decorators               *)
(* Each part has its own specification; the variables of the other parts   *)
(* stay at their idle values.                                              *)
(***************************************************************************)
EXTENDS Integers, Sequences, FiniteSets, TLC

VARIABLES
  \* ---- NodePath removal ----
  container,    \* the parent's array container: sequence of node ids
  slot,         \* the parent's single-node slot: a node id or Null
  paths,        \* path id -> [node, inList, key, removed, shouldSkip]
  pathCache,    \* the parent's entry of the path cache: set of <<node, path>>
  bindings,     \* names bound in the scope
  comments,     \* node id -> [leading, trailing] sets of comment ids
  lastCall,     \* the last remove() call: [path, outcome, steps, hooks]
  \* ---- single calls (hasMinVersion, createFlowUnionType, validate, ----
  \* ---- the env preset, prettify, the function-name helper)         ----
  args,         \* the arguments of the call
  result,       \* <<value returned>>, NoResult before the call
  \* ---- optional-catch-binding pass ----
  catchClauses, \* clause -> [param, bindings, parent]
  references,   \* program.references: names no generated uid may take
  cursor,       \* [pass, next]: passes finished and next clause to visit
  \* ---- generator Printer ----
  printer,      \* the Printer object: its fields and its buffer
  frames,       \* the print calls in progress, innermost last
  budget,       \* calls the run may still make
  lastPrint,    \* the last call: [node, outcome, error, call]
  \* ---- decorated class ----
  evaluation    \* [class, pending, log, instances] of the class evaluated

removalVars == <<container, slot, paths, pathCache, bindings, comments, lastCall>>
callVars == <<args, result>>
catchVars == <<catchClauses, references, cursor>>
printerVars == <<printer, frames, budget, lastPrint>>

vars == <<removalVars, callVars, catchVars, printerVars, evaluation>>

\* The variables a part leaves alone.
notRemovalVars == <<callVars, catchVars, printerVars, evaluation>>
notCallVars == <<removalVars, catchVars, printerVars, evaluation>>
notCatchVars == <<removalVars, result, printerVars, evaluation>>
notPrinterVars == <<removalVars, callVars, catchVars, evaluation>>
notEvaluationVars == <<removalVars, callVars, catchVars, printerVars>>

Null == 0
NoResult == <<>>

\* Idle values of the parts a specification does not use.
IdleRemoval ==
  /\ container = <<>> /\ slot = Null /\ paths = <<>> /\ pathCache = {}
  /\ bindings = {} /\ comments = <<>> /\ lastCall = Null
IdleCall == args = Null /\ result = NoResult
IdleCatch == catchClauses = <<>> /\ references = {} /\ cursor = Null
IdlePrinter ==
  printer = Null /\ frames = <<>> /\ budget = 0 /\ lastPrint = Null
IdleEvaluation == evaluation = Null
IdleNotRemoval == IdleCall /\ IdleCatch /\ IdlePrinter /\ IdleEvaluation
IdleNotCall == IdleRemoval /\ IdleCatch /\ IdlePrinter /\ IdleEvaluation
IdleNotCatch ==
  IdleRemoval /\ result = NoResult /\ IdlePrinter /\ IdleEvaluation
IdleNotPrinter == IdleRemoval /\ IdleCall /\ IdleCatch /\ IdleEvaluation
IdleNotEvaluation == IdleRemoval /\ IdleCall /\ IdleCatch /\ IdlePrinter

(***************************************************************************)
(*                          NodePath removal                               *)
(***************************************************************************)

\* Number of statements in the array container at the start.
NumStmts == 3
\* Number of removal hooks in the hook list.
NumHooks == 2

ListNodes == 1..NumStmts
SlotNode == NumStmts + 1
Nodes == 1..SlotNode
PathIds == Nodes
Hooks == 1..NumHooks

\* Sequence helpers (0-based index i, as in the source).
At(s, i) == IF i >= 0 /\ i < Len(s) THEN s[i + 1] ELSE Null
\* Array.prototype.splice(i, 1)
Splice1(s, i) ==
  IF i < 0 \/ i >= Len(s) THEN s
  ELSE [j \in 1..(Len(s) - 1) |-> IF j <= i THEN s[j] ELSE s[j + 1]]

\* The names a node binds (getBindingIdentifiers): odd nodes are declarations.
getBindingIdentifiers(n) == IF n # Null /\ n % 2 = 1 THEN {n} ELSE {}

InitRemoval ==
  /\ container = [i \in 1..NumStmts |-> i]
  /\ slot = SlotNode
  /\ paths = [p \in PathIds |->
                [node |-> p, inList |-> p \in ListNodes,
                 key |-> IF p \in ListNodes THEN p - 1 ELSE 0,
                 removed |-> FALSE, shouldSkip |-> FALSE]]
  /\ pathCache = {<<n, n>> : n \in Nodes}
  /\ bindings = UNION {getBindingIdentifiers(n) : n \in Nodes}
  /\ comments = [n \in Nodes |-> [leading |-> {2 * n - 1}, trailing |-> {2 * n}]]
  /\ lastCall = [path |-> Null, outcome |-> "none", steps |-> <<>>,
                 hooks |-> <<>>]

\* _assertUnremoved: TRUE when it throws.
_assertUnremovedMutant(path) == FALSE
_assertUnremoved(path) == path.removed

\* resync -> _resyncKey: the key the path has after resynchronising.
resync(path, cont, slt) ==
  IF path.removed THEN path.key
  ELSE IF path.inList
    THEN IF At(cont, path.key) = path.node THEN path.key
         ELSE IF \E i \in 0..(Len(cont) - 1) : At(cont, i) = path.node
                THEN CHOOSE i \in 0..(Len(cont) - 1) : At(cont, i) = path.node
                ELSE -1
    ELSE path.key

\* _removeFromScope: the bindings left in the scope.
_removeFromScope(path, bnd) == bnd \ getBindingIdentifiers(path.node)

\* _callRemovalHooks: the hooks called, in order, for outcomes res; the chain
\* stops at the first hook that returns truthy.
HooksCalled(res) ==
  IF \E h \in Hooks : res[h]
    THEN LET first == CHOOSE h \in Hooks : res[h] /\ \A g \in 1..(h - 1) : ~res[g]
         IN 1..first
    ELSE Hooks
_callRemovalHooksMutant(res) == \A h \in Hooks : res[h]
_callRemovalHooks(res) == \E h \in Hooks : res[h]
\* The calls fn(this, this.parentPath) made, in order, with what each returned;
\* every path of the model has the same parent path.
HookCalls(p, res) == [i \in 1..Cardinality(HooksCalled(res)) |-> [fn |-> i, path |-> p, returned |-> res[i]]]

\* shareCommentsWithSiblings: the comment table after the path's node handed
\* its comments to its previous/next sibling.
shareCommentsWithSiblings(path, cont, cm) ==
  IF ~path.inList \/ path.node = Null THEN cm
  ELSE
    LET node == path.node
        prev == At(cont, path.key - 1)
        next == At(cont, path.key + 1)
        hasPrev == prev # Null
        hasNext == next # Null
        leading == cm[node].leading
        trailing == cm[node].trailing
        cm1 == IF hasPrev
                 THEN [cm EXCEPT ![prev].trailing =
                         @ \cup leading \cup (IF hasNext THEN {} ELSE trailing)]
                 ELSE cm
        cm2 == IF hasNext
                 THEN [cm1 EXCEPT ![next].leading =
                         @ \cup trailing \cup (IF hasPrev THEN {} ELSE leading)]
                 ELSE cm1
    IN cm2

\* updateSiblingKeys(fromIndex, incrementBy) over the cached paths of the parent.
updateSiblingKeys(ps, cache, fromIndex, incrementBy) ==
  [p \in PathIds |->
     IF (\E n \in Nodes : <<n, p>> \in cache) /\ ps[p].inList /\ ps[p].key >= fromIndex
       THEN [ps[p] EXCEPT !.key = @ + incrementBy]
       ELSE ps[p]]

\* _remove: container, slot and paths after the generic detach of path p:
\* splice and shift the sibling keys, or _replaceWith(null) on a single slot.
_removeMutant(p, cont, slt, ps, cache) ==
  IF ps[p].inList
    THEN [container |-> Splice1(cont, ps[p].key), slot |-> slt,
          paths |-> updateSiblingKeys(ps, cache, ps[p].key, 1)]
    ELSE [container |-> cont, slot |-> Null, paths |-> ps]
_remove(p, cont, slt, ps, cache) ==
  IF ps[p].inList
    THEN [container |-> Splice1(cont, ps[p].key), slot |-> slt,
          paths |-> updateSiblingKeys(ps, cache, ps[p].key, -1)]
    ELSE [container |-> cont, slot |-> Null, paths |-> ps]

\* _markRemoved: flags set, node dropped.
_markRemovedMutant(path) ==
  [path EXCEPT !.removed = TRUE, !.node = Null]
_markRemoved(path) ==
  [path EXCEPT !.removed = TRUE, !.shouldSkip = TRUE, !.node = Null]

StepNames(hooksCalled, handled, noScope) ==
  <<"assert", "resync">> \o (IF noScope THEN <<>> ELSE <<"scope">>)
    \o [i \in 1..Cardinality(hooksCalled) |-> "hook"]
    \o (IF handled THEN <<>> ELSE <<"share", "detach">>) \o <<"mark">>

\* remove(): the whole handler, for path p, option noScope and hook outcomes res.
remove(p, noScope, res) ==
  IF _assertUnremoved(paths[p])
    THEN /\ lastCall' = [path |-> p, outcome |-> "throw", steps |-> <<"assert">>,
                         hooks |-> <<>>]
         /\ UNCHANGED <<container, slot, paths, pathCache, bindings, comments>>
         /\ UNCHANGED notRemovalVars
    ELSE
      LET synced == [paths[p] EXCEPT !.key = resync(paths[p], container, slot)]
          ps0 == [paths EXCEPT ![p] = synced]
          handled == _callRemovalHooks(res)
          node == synced.node
      IN /\ bindings' = IF noScope THEN bindings
                        ELSE _removeFromScope(synced, bindings)
         /\ comments' = IF handled THEN comments
                        ELSE shareCommentsWithSiblings(synced, container, comments)
         /\ LET det == IF handled
                         THEN [container |-> container, slot |-> slot, paths |-> ps0]
                         ELSE _remove(p, container, slot, ps0, pathCache)
            IN /\ container' = det.container
               /\ slot' = det.slot
               /\ paths' = [det.paths EXCEPT ![p] = _markRemoved(det.paths[p])]
         /\ pathCache' = {e \in pathCache : e[1] # node}
         /\ lastCall' = [path |-> p, outcome |-> "ok",
                         steps |-> StepNames(HooksCalled(res), handled, noScope),
                         hooks |-> HookCalls(p, res)]
         /\ UNCHANGED notRemovalVars

Remove ==
  \E p \in PathIds, noScope \in BOOLEAN, res \in [Hooks -> BOOLEAN] :
    remove(p, noScope, res)

NextRemoval == Remove

RemovalStart == InitRemoval /\ IdleNotRemoval

SpecRemoval == RemovalStart /\ [][NextRemoval]_vars

\* Paths that are not removed point at their node through container and key.
PathViewConsistent ==
  \A p \in PathIds :
    ~paths[p].removed =>
      IF paths[p].inList THEN At(container, paths[p].key) = paths[p].node
      ELSE slot = paths[p].node

\* C1: remove() on a path already marked removed throws the "NodePath has been
\* removed so is read-only." error at its first step (_assertUnremoved), before
\* resync, scope-binding removal, hooks or any container change: the second call
\* changes neither container, slot, paths, path cache, bindings nor comments.
C1_RemoveRemovedThrows ==
  [][\A p \in PathIds :
       (paths[p].removed /\ lastCall'.path = p) =>
         /\ lastCall'.outcome = "throw"
         /\ lastCall'.steps = <<"assert">>
         /\ UNCHANGED <<container, slot, paths, pathCache, bindings, comments>>]_vars

\* A second remove() of path 2, after other paths were removed too.
C1_Witness ==
  /\ lastCall.outcome = "throw" /\ lastCall.path = 2
  /\ paths[2].removed /\ Len(container) < NumStmts

\* C2: a remove() that takes the generic detach on an array-container path
\* splices out exactly that element, keeps the other elements in their order,
\* decreases by 1 the key of every sibling path that was after it, leaves the
\* keys before it alone, and every remaining path still finds its node at its
\* key.
C2_SpliceShiftsSiblings ==
  [][\A p \in PathIds :
       (/\ lastCall'.path = p /\ lastCall'.outcome = "ok"
        /\ ~paths[p].removed /\ paths[p].inList
        /\ lastCall'.steps[Len(lastCall'.steps) - 1] = "detach") =>
         /\ Len(container') = Len(container) - 1
         /\ container' = SelectSeq(container, LAMBDA n : n # paths[p].node)
         /\ \A q \in PathIds \ {p} :
              (~paths[q].removed /\ paths[q].inList) =>
                /\ paths'[q].node = paths[q].node
                /\ paths'[q].key = IF paths[q].key > paths[p].key
                                     THEN paths[q].key - 1 ELSE paths[q].key
                /\ At(container', paths'[q].key) = paths'[q].node]_vars

\* The 2nd of 3 statements was detached: 2 statements left, the 3rd at index 1.
C2_Witness ==
  /\ lastCall.path = 2 /\ lastCall.outcome = "ok"
  /\ lastCall.steps[Len(lastCall.steps) - 1] = "detach"
  /\ container = <<1, 3>> /\ paths[3].key = 1 /\ paths[1].key = 0

(***************************************************************************)
(*              hasMinVersion (plugin-transform-runtime)                   *)
(***************************************************************************)

\* The next breaking major of `>=8.0.0`.
NextMajor == 8
\* Largest major version, largest minor/patch number and largest
\* pre-release number of the versions drawn.
MaxMajor == 9
MaxMinor == 1
MaxPre == 1

\* A version major.minor.patch with pre = 0, or major.minor.patch-beta.pre.
Versions ==
  [major : {0} \cup (NextMajor - 1)..MaxMajor, minor : 0..MaxMinor,
   patch : 0..MaxMinor, pre : 0..MaxPre]
Version(M, m, p) == [major |-> M, minor |-> m, patch |-> p, pre |-> 0]

\* semver precedence: a pre-release is lower than its release.
VLess(a, b) ==
  \/ a.major < b.major
  \/ a.major = b.major /\ a.minor < b.minor
  \/ a.major = b.major /\ a.minor = b.minor /\ a.patch < b.patch
  \/ /\ a.major = b.major /\ a.minor = b.minor /\ a.patch = b.patch
     /\ a.pre > 0 /\ (b.pre = 0 \/ a.pre < b.pre)
VLeq(a, b) == a = b \/ VLess(a, b)

\* The values of runtimeVersion: undefined, "", an exact version "M.m.p[-pre]",
\* or a range string "^M.m.p" or ">=M.m.p".
RuntimeVersions ==
  {[kind |-> k, v |-> Version(0, 0, 0)] : k \in {"undefined", "empty"}}
    \cup [kind : {"version", "caret", "gte"}, v : Versions]

\* semver.valid: only an exact version is one.
semverValid(rt) == rt.kind = "version"

\* The comparator set of ^v (semver 6 replaceCaret).
Caret(v) ==
  LET upper == IF v.major > 0 THEN Version(v.major + 1, 0, 0)
               ELSE IF v.minor > 0 THEN Version(0, v.minor + 1, 0)
               ELSE Version(0, 0, v.patch + 1)
  IN {[op |-> ">=", v |-> v], [op |-> "<", v |-> upper]}

\* The comparator set a range string parses to.
ParseRange(rt) ==
  IF rt.kind = "gte" THEN {[op |-> ">=", v |-> rt.v]} ELSE Caret(rt.v)

\* semver Comparator.intersects for the operators >= and <.
ComparatorIntersects(a, b) ==
  \/ a.op = b.op
  \/ a.op = ">=" /\ b.op = "<" /\ VLess(a.v, b.v)
  \/ a.op = "<" /\ b.op = ">=" /\ VLess(b.v, a.v)

\* semver isSatisfiable and Range.intersects for two comparator sets.
IsSatisfiable(cs) == \A a \in cs, b \in cs : ComparatorIntersects(a, b)
semverIntersects(r1, r2) ==
  /\ IsSatisfiable(r1) /\ IsSatisfiable(r2)
  /\ \A a \in r1, b \in r2 : ComparatorIntersects(a, b)

hasMinVersionMutant(minVersion, runtimeVersion) ==
  IF runtimeVersion.kind \in {"undefined", "empty"} THEN TRUE
  ELSE LET range == IF semverValid(runtimeVersion) THEN Caret(runtimeVersion.v)
                    ELSE ParseRange(runtimeVersion)
       IN ~semverIntersects({[op |-> "<", v |-> minVersion]}, range)
hasMinVersion(minVersion, runtimeVersion) ==
  IF runtimeVersion.kind \in {"undefined", "empty"} THEN TRUE
  ELSE LET range == IF semverValid(runtimeVersion) THEN Caret(runtimeVersion.v)
                    ELSE ParseRange(runtimeVersion)
       IN /\ ~semverIntersects({[op |-> "<", v |-> minVersion]}, range)
          /\ ~semverIntersects({[op |-> ">=", v |-> Version(NextMajor, 0, 0)]}, range)

InitHasMinVersion ==
  /\ args \in [minVersion : Versions, runtimeVersion : RuntimeVersions]
  /\ result = NoResult
  /\ IdleNotCall

CallHasMinVersion ==
  /\ result = NoResult
  /\ result' = <<hasMinVersion(args.minVersion, args.runtimeVersion)>>
  /\ UNCHANGED <<args, notCallVars>>

NextHasMinVersion == CallHasMinVersion

SpecHasMinVersion == InitHasMinVersion /\ [][NextHasMinVersion]_vars

\* C3 as stated: TRUE for an unknown runtime version; for an exact runtime
\* version, TRUE exactly when minVersion <= runtimeVersion < 8.0.0.
C3_Original ==
  result # NoResult =>
    /\ args.runtimeVersion.kind \in {"undefined", "empty"} => result[1]
    /\ args.runtimeVersion.kind = "version" =>
         (result[1] <=> /\ VLeq(args.minVersion, args.runtimeVersion.v)
                        /\ VLess(args.runtimeVersion.v, Version(NextMajor, 0, 0)))

\* C3 amended: TRUE for an unknown runtime version; for an exact runtime
\* version, TRUE exactly when minVersion <= runtimeVersion and the runtime's
\* major number is below 8, so that 8.0.0 and its pre-releases (which precede
\* 8.0.0) are rejected whatever minVersion is.
C3_HasMinVersion ==
  result # NoResult =>
    /\ args.runtimeVersion.kind \in {"undefined", "empty"} => result[1]
    /\ args.runtimeVersion.kind = "version" =>
         /\ result[1] <=> /\ VLeq(args.minVersion, args.runtimeVersion.v)
                           /\ args.runtimeVersion.v.major < NextMajor
         /\ VLeq(Version(NextMajor, 0, 0), args.runtimeVersion.v) => ~result[1]
         /\ VLess(args.runtimeVersion.v, args.minVersion) => ~result[1]

\* hasMinVersion("7.1.0", "8.0.0") returned false.
C3_Witness ==
  /\ result = <<FALSE>>
  /\ args.minVersion = Version(7, 1, 0)
  /\ args.runtimeVersion = [kind |-> "version", v |-> Version(8, 0, 0)]

(***************************************************************************)
(*                  createFlowUnionType (babel-types)                      *)
(***************************************************************************)

\* Number of distinct non-union types, largest number of members of an input
\* union node, and largest length of the list passed in.
NumLeaf == 2
MaxMembers == 2
MaxTypes == 2

SeqsUpTo(S, n) == UNION {[1..k -> S] : k \in 0..n}

LeafTypes == [type : {"Leaf"}, id : 1..NumLeaf]
unionTypeAnnotation(types) == [type |-> "UnionTypeAnnotation", types |-> types]
InputUnions == {unionTypeAnnotation(ts) : ts \in SeqsUpTo(LeafTypes, MaxMembers)}
FlowTypes == LeafTypes \cup InputUnions

\* The members of a list of types, union nodes replaced by their members.
RECURSIVE Flatten(_)
Flatten(types) ==
  IF types = <<>> THEN <<>>
  ELSE LET head == Head(types)
       IN (IF head.type = "UnionTypeAnnotation" THEN Flatten(head.types)
           ELSE <<head>>) \o Flatten(Tail(types))

\* A list without its repeated elements, first occurrences kept in order.
RECURSIVE Dedupe(_)
Dedupe(types) ==
  IF types = <<>> THEN <<>>
  ELSE LET init == Dedupe(SubSeq(types, 1, Len(types) - 1))
           last == types[Len(types)]
       IN IF \E i \in 1..Len(init) : init[i] = last THEN init
          ELSE Append(init, last)

removeTypeDuplicates(types) == Dedupe(Flatten(types))

createFlowUnionTypeMutant(types) ==
  unionTypeAnnotation(removeTypeDuplicates(types))
createFlowUnionType(types) ==
  LET flattened == removeTypeDuplicates(types)
  IN IF Len(flattened) = 1 THEN flattened[1]
     ELSE unionTypeAnnotation(flattened)

InitCreateFlowUnionType ==
  /\ args \in SeqsUpTo(FlowTypes, MaxTypes)
  /\ result = NoResult
  /\ IdleNotCall

CallCreateFlowUnionType ==
  /\ result = NoResult
  /\ result' = <<createFlowUnionType(args)>>
  /\ UNCHANGED <<args, notCallVars>>

NextCreateFlowUnionType == CallCreateFlowUnionType

SpecCreateFlowUnionType ==
  InitCreateFlowUnionType /\ [][NextCreateFlowUnionType]_vars

\* The leaf types that occur in a list of types, at any depth.
RECURSIVE LeavesOf(_)
LeavesOf(types) ==
  UNION {IF types[i].type = "UnionTypeAnnotation" THEN LeavesOf(types[i].types)
         ELSE {types[i]} : i \in 1..Len(types)}

MaxSuffix == 2
MaxBlockStmts == 2
MaxMembersInBody == 3

\* Decimal digits of a number, as a sequence of characters.
RECURSIVE NumberToString(_)
NumberToString(n) ==
  LET digit == <<"0", "1", "2", "3", "4", "5", "6", "7", "8", "9">>[(n % 10) + 1]
  IN IF n < 10 THEN <<digit>> ELSE Append(NumberToString(n \div 10), digit)

\* scope._generateUid(name, i): "_" + name + (i > 1 ? i : "").
_generateUid(name, i) ==
  <<"_">> \o name \o (IF i > 1 THEN NumberToString(i) ELSE <<>>)

\* generateUid(scope, denyList): the first _generateUid("", i), i = 1, 2, ...
\* that is not in denyList.
generateUidMutant(denyList) == _generateUid(<<>>, Cardinality(denyList) + 1)
generateUid(denyList) ==
  LET name == <<>>
      i == CHOOSE i \in 1..(Cardinality(denyList) + 1) :
             /\ _generateUid(name, i) \notin denyList
             /\ \A j \in 1..(i - 1) : _generateUid(name, j) \in denyList
  IN _generateUid(name, i)

\* Class members: private properties/methods, other members, static blocks.
PrivateNameStrings == {_generateUid(<<>>, i) : i \in 1..MaxSuffix} \cup {<<"x">>}
BlockStatements ==
  [type : {"ExpressionStatement"}, expression : {"e1"}]
    \cup [type : {"ReturnStatement"}]
ClassMembers ==
  [kind : {"ClassPrivateProperty"}, name : PrivateNameStrings, static : {FALSE}]
    \cup [kind : {"ClassMethod"}, name : {<<"m">>}, static : {FALSE}]
    \cup [kind : {"StaticBlock"}, body : SeqsUpTo(BlockStatements, MaxBlockStmts)]

isPrivate(member) == member.kind \in {"ClassPrivateProperty", "ClassPrivateMethod"}
isStaticBlock(member) == member.kind = "StaticBlock"

\* The initializer that replaces a static block's body.
StaticBlockReplacementMutant(blockBody) ==
  [type |-> "CallExpression",
   callee |-> [type |-> "ArrowFunctionExpression", params |-> <<>>, body |-> blockBody]]
StaticBlockReplacement(blockBody) ==
  IF Len(blockBody) = 1 /\ blockBody[1].type = "ExpressionStatement"
    THEN [type |-> "Expression", expression |-> blockBody[1].expression]
    ELSE [type |-> "CallExpression",
          callee |-> [type |-> "ArrowFunctionExpression", params |-> <<>>,
                      body |-> blockBody]]

\* t.classPrivateProperty(key, value, decorators, static)
classPrivateProperty(name, value, decorators, static) ==
  [kind |-> "ClassPrivateProperty", name |-> name, value |-> value,
   decorators |-> decorators, static |-> static]

\* The second loop of the ClassBody visitor, from member i on, with the
\* private names known so far.
RECURSIVE ReplaceStaticBlocks(_, _, _)
ReplaceStaticBlocks(body, i, privateNames) ==
  IF i > Len(body) THEN body
  ELSE IF ~isStaticBlock(body[i]) THEN ReplaceStaticBlocks(body, i + 1, privateNames)
  ELSE LET staticBlockPrivateId == generateUid(privateNames)
           replacement == StaticBlockReplacement(body[i].body)
       IN ReplaceStaticBlocks(
            [body EXCEPT ![i] =
               classPrivateProperty(staticBlockPrivateId, replacement, <<>>, TRUE)],
            i + 1, privateNames \cup {staticBlockPrivateId})

\* The ClassBody visitor: collect the private names, then replace the blocks.
ClassBody(body) ==
  LET privateNames == {body[i].name : i \in {j \in 1..Len(body) : isPrivate(body[j])}}
  IN ReplaceStaticBlocks(body, 1, privateNames)

InitStaticBlock ==
  /\ args \in SeqsUpTo(ClassMembers, MaxMembersInBody)
  /\ result = NoResult
  /\ IdleNotCall

VisitClassBody ==
  /\ result = NoResult
  /\ result' = <<ClassBody(args)>>
  /\ UNCHANGED <<args, notCallVars>>

NextStaticBlock == VisitClassBody

SpecStaticBlock == InitStaticBlock /\ [][NextStaticBlock]_vars

StaticBlockIndexes == {i \in 1..Len(args) : isStaticBlock(args[i])}

C6_BlocksReplacedInPlace ==
  result # NoResult =>
    /\ Len(result[1]) = Len(args)
    /\ \A i \in 1..Len(args) :
         IF isStaticBlock(args[i])
           THEN LET m == result[1][i]
                    b == args[i].body
                IN /\ m.kind = "ClassPrivateProperty" /\ m.static /\ m.decorators = <<>>
                   /\ IF Len(b) = 1 /\ b[1].type = "ExpressionStatement"
                        THEN m.value = [type |-> "Expression",
                                        expression |-> b[1].expression]
                        ELSE /\ m.value.type = "CallExpression"
                             /\ m.value.callee.type = "ArrowFunctionExpression"
                             /\ m.value.callee.params = <<>>
                             /\ m.value.callee.body = b
           ELSE result[1][i] = args[i]
    /\ \A i \in 1..Len(result[1]) : ~isStaticBlock(result[1][i])

\* A single-expression block and an empty block next to an ordinary method.
C6_Witness ==
  /\ result # NoResult /\ Len(args) = 3
  /\ isStaticBlock(args[1]) /\ Len(args[1].body) = 1
  /\ args[1].body[1].type = "ExpressionStatement"
  /\ args[2].kind = "ClassMethod"
  /\ isStaticBlock(args[3]) /\ args[3].body = <<>>
  /\ result[1][1].value.type = "Expression"
  /\ result[1][3].value.type = "CallExpression"

(***************************************************************************)
(*                 transform-optional-catch-binding                        *)
(***************************************************************************)

\* Number of catch clauses in the program and number of runs of the pass.
NumClauses == 2
MaxPasses == 2

Clauses == 1..NumClauses
\* A catch clause without a parameter.
NoParam == <<>>
UnusedBase == <<"unused">>
\* Names the source program may already use.
ProgramNames == {<<"e">>, _generateUid(UnusedBase, 1), _generateUid(UnusedBase, 2)}

\* The enclosing catch clauses of clause c.
RECURSIVE Ancestors(_, _)
Ancestors(cl, c) ==
  IF cl[c].parent = 0 THEN {} ELSE {cl[c].parent} \cup Ancestors(cl, cl[c].parent)

\* scope.hasBinding from the clause's scope: its own bindings and parameter
\* and those of the enclosing clauses.
VisibleBindings(cl, c) ==
  UNION {cl[d].bindings \cup ({cl[d].param} \ {NoParam}) : d \in Ancestors(cl, c) \cup {c}}

\* scope.generateUidIdentifier(name): the first _generateUid(name, i) that is
\* neither a visible binding nor a known reference of the program.
generateUidIdentifier(name, visible, refs) ==
  LET taken == visible \cup refs
      i == CHOOSE i \in 1..(Cardinality(taken) + 1) :
             /\ _generateUid(name, i) \notin taken
             /\ \A j \in 1..(i - 1) : _generateUid(name, j) \in taken
  IN _generateUid(name, i)

InitCatch ==
  /\ catchClauses \in
       {cl \in [Clauses -> [param : {NoParam} \cup ProgramNames,
                            bindings : SUBSET (ProgramNames \ {<<"e">>}),
                            parent : 0..(NumClauses - 1)]] :
          \A c \in Clauses : cl[c].parent < c}
  /\ references =
       UNION {catchClauses[c].bindings \cup ({catchClauses[c].param} \ {NoParam}) :
                c \in Clauses}
  /\ cursor = [pass |-> 0, next |-> 1]
  /\ args = catchClauses
  /\ IdleNotCatch

\* The parameter the visitor leaves on a clause: a clause without one gets a
\* generated identifier.
CatchClauseParamMutant(cl, c, refs) ==
  IF cl[c].param = NoParam THEN _generateUid(UnusedBase, 1) ELSE cl[c].param
CatchClauseParam(cl, c, refs) ==
  IF cl[c].param = NoParam
    THEN generateUidIdentifier(UnusedBase, VisibleBindings(cl, c), refs)
    ELSE cl[c].param

\* The CatchClause visitor on the next clause of the traversal.
CatchClause ==
  /\ cursor.pass < MaxPasses /\ cursor.next \in Clauses
  /\ LET c == cursor.next
         param == CatchClauseParam(catchClauses, c, references)
     IN /\ catchClauses' = [catchClauses EXCEPT ![c].param = param]
        /\ references' = IF catchClauses[c].param = NoParam
                           THEN references \cup {param} ELSE references
        /\ cursor' = [cursor EXCEPT !.next = c + 1]
  /\ UNCHANGED <<args, notCatchVars>>

\* The traversal ends; the pass may be run again.
EndPass ==
  /\ cursor.pass < MaxPasses /\ cursor.next = NumClauses + 1
  /\ cursor' = [pass |-> cursor.pass + 1, next |-> 1]
  /\ UNCHANGED <<catchClauses, references, args, notCatchVars>>

NextCatch == CatchClause \/ EndPass

SpecCatch == InitCatch /\ [][NextCatch]_vars

GeneratedUnusedNames == {_generateUid(UnusedBase, i) : i \in 1..(3 * NumClauses + 1)}

\* C7: once the pass has run, every catch clause has a parameter; a clause
\* that had none has a generated identifier _unused, _unused2, ... that no
\* binding visible to the clause, no name of the source program and no other
\* generated parameter equals; a clause that has a parameter is never changed
\* by the visitor, so a second run of the pass changes nothing.
C7_CatchBinding ==
  /\ [](cursor.pass >= 1 =>
         \A c \in Clauses :
           /\ catchClauses[c].param # NoParam
           /\ args[c].param # NoParam => catchClauses[c] = args[c]
           /\ args[c].param = NoParam =>
                /\ catchClauses[c].param \in GeneratedUnusedNames
                /\ catchClauses[c].param \notin
                     VisibleBindings([catchClauses EXCEPT ![c].param = NoParam], c)
                /\ \A d \in Clauses :
                     /\ catchClauses[c].param \notin args[d].bindings \cup {args[d].param}
                     /\ d # c => catchClauses[c].param # catchClauses[d].param)
  /\ [][/\ \A c \in Clauses :
             catchClauses[c].param # NoParam => catchClauses'[c] = catchClauses[c]
        /\ cursor.pass >= 1 => catchClauses' = catchClauses]_vars

\* A second run has ended on a program whose nested clause had no parameter
\* while _unused was already bound around it: it got _unused2.
C7_Witness ==
  /\ cursor.pass = 2
  /\ args[2].param = NoParam /\ args[2].parent = 1
  /\ args[1].param = _generateUid(UnusedBase, 1)
  /\ catchClauses[2].param = _generateUid(UnusedBase, 2)

(***************************************************************************)
(*                     Printer (babel-generator)                           *)
(***************************************************************************)

\* The printer is one record P with the fields of the class; every method is
\* an operator from P (and its arguments) to the P it leaves behind. Text is
\* a sequence of characters. The buffer keeps what was written as a sequence
\* of pieces [k, s]: s is the text of one append/queue call and k tells which
\* kind of write made it ("word", "token", "space", "newline", "semicolon",
\* "indent", "comment").

Last(s) == s[Len(s)]
Min(a, b) == IF a < b THEN a ELSE b
Max(a, b) == IF a > b THEN a ELSE b

\* format.indent.style
IndentStyle == <<" ", " ">>

\* A node that is not there (null / undefined).
NoNode ==
  [type |-> "none", hasLoc |-> FALSE, startLine |-> 0, endLine |-> 0,
   leadingComments |-> <<>>, innerComments |-> <<>>, trailingComments |-> <<>>,
   compact |-> FALSE, properties |-> 0]

\* ---------------------------------------------------------------- Buffer
\* "" stands for the charCode 0 of an empty buffer.
getLastChar(P) == IF P.buf = <<>> THEN "" ELSE Last(Last(P.buf).s)
endsWith(P, char) == getLastChar(P) = char
hasContent(P) == P.buf # <<>>

\* Number of line feeds in a text / in the whole buffer.
RECURSIVE CountLineFeeds(_)
CountLineFeeds(s) ==
  IF s = <<>> THEN 0
  ELSE (IF Head(s) = "\n" THEN 1 ELSE 0) + CountLineFeeds(Tail(s))
RECURSIVE BufLineFeeds(_)
BufLineFeeds(b) ==
  IF b = <<>> THEN 0 ELSE CountLineFeeds(Head(b).s) + BufLineFeeds(Tail(b))
getCurrentLine(P) == 1 + BufLineFeeds(P.buf)

\* Buffer.getNewlineCount: the line feeds at the end of the queue, plus the
\* flushed one before them.
RECURSIVE TrailingLineFeeds(_, _)
TrailingLineFeeds(b, n) ==
  IF n = 0 \/ Last(b).k # "newline" THEN 0
  ELSE 1 + TrailingLineFeeds(SubSeq(b, 1, Len(b) - 1), n - 1)
getNewlineCount(P) ==
  LET lastIsLineFeed == /\ Len(P.buf) > P.queued
                        /\ Last(P.buf[Len(P.buf) - P.queued].s) = "\n"
      count == TrailingLineFeeds(P.buf, P.queued)
  IN IF P.queued = 0 THEN (IF lastIsLineFeed THEN 1 ELSE 0)
     ELSE IF count = P.queued /\ lastIsLineFeed THEN count + 1
     ELSE count

\* Buffer.append / appendChar: the queue is flushed, the text follows it.
bufAppend(P, k, str) ==
  IF str = <<>> THEN [P EXCEPT !.queued = 0]
  ELSE [P EXCEPT !.buf = Append(@, [k |-> k, s |-> str]), !.queued = 0]

\* Buffer.queue: a line feed drops the spaces queued before it.
RECURSIVE DropQueuedSpaces(_, _)
DropQueuedSpaces(b, n) ==
  IF n = 0 \/ Last(b).k \notin {"space", "indent"} THEN [buf |-> b, queued |-> n]
  ELSE DropQueuedSpaces(SubSeq(b, 1, Len(b) - 1), n - 1)
bufQueue(P, char) ==
  LET kind == IF char = " " THEN "space"
              ELSE IF char = "\n" THEN "newline" ELSE "semicolon"
      d == IF char = "\n" THEN DropQueuedSpaces(P.buf, P.queued)
           ELSE [buf |-> P.buf, queued |-> P.queued]
  IN [P EXCEPT !.buf = Append(d.buf, [k |-> kind, s |-> <<char>>]),
               !.queued = d.queued + 1]

\* Buffer.queueIndentation(char, repeat)
bufQueueIndentation(P, repeat) ==
  IF repeat = 0 THEN P
  ELSE [P EXCEPT !.buf = Append(@, [k |-> "indent", s |-> [i \in 1..repeat |-> " "]]),
                 !.queued = @ + 1]

\* --------------------------------------------------------------- Comments
\* The comment objects of the program. value stands for the text; nl and end
\* tell whether the text holds a line terminator or `*/`.
CommentTable ==
  <<[value |-> "c1", type |-> "CommentBlock", nl |-> FALSE, end |-> FALSE,
     ignore |-> FALSE, hasLoc |-> TRUE, startLine |-> 1, endLine |-> 1],
    [value |-> "c2", type |-> "CommentLine", nl |-> FALSE, end |-> FALSE,
     ignore |-> FALSE, hasLoc |-> FALSE, startLine |-> 0, endLine |-> 0],
    [value |-> "c3", type |-> "CommentBlock", nl |-> TRUE, end |-> FALSE,
     ignore |-> FALSE, hasLoc |-> TRUE, startLine |-> 2, endLine |-> 3],
    [value |-> "c4", type |-> "CommentBlock", nl |-> FALSE, end |-> FALSE,
     ignore |-> TRUE, hasLoc |-> FALSE, startLine |-> 0, endLine |-> 0],
    [value |-> "#__PURE__", type |-> "CommentBlock", nl |-> FALSE,
     end |-> FALSE, ignore |-> FALSE, hasLoc |-> FALSE, startLine |-> 0,
     endLine |-> 0],
    [value |-> "c6", type |-> "CommentBlock", nl |-> TRUE, end |-> FALSE,
     ignore |-> TRUE, hasLoc |-> FALSE, startLine |-> 0, endLine |-> 0],
    [value |-> "c7", type |-> "CommentLine", nl |-> FALSE, end |-> FALSE,
     ignore |-> FALSE, hasLoc |-> TRUE, startLine |-> 2, endLine |-> 2]>>

\* The comment object _printAuxBeforeComment / _printAuxAfterComment builds.
AuxComment(text) ==
  [value |-> text, type |-> "CommentBlock", nl |-> FALSE, end |-> FALSE,
   ignore |-> FALSE, hasLoc |-> FALSE, startLine |-> 0,
   endLine |-> 0]

\* `/*value*/` and `//value`
BlockCommentText(c) ==
  <<"/", "*", c.value>> \o (IF c.nl THEN <<"\n">> ELSE <<>>) \o <<"*", "/">>
LineCommentText(c) == <<"/", "/", c.value>>

\* ------------------------------------------------------------ Node kinds
isStatement(node) == node.type \in {"ExpressionStatement", "BlockStatement"}

\* The node types generatorFunctions has a print method for.
PrintableTypes ==
  {"Identifier", "ExpressionStatement", "BlockStatement", "ObjectExpression",
   "ClassBody", "FunctionExpression", "Program"}

\* ------------------------------------------------------- Printer: writes
\* The enums COMMENT_TYPE, COMMENT_SKIP_NEWLINE and PRINT_COMMENT_HINT are
\* written as the names of their members.

indent(P) ==
  IF P.format.compact \/ P.format.concise THEN P
  ELSE [P EXCEPT !.indent = @ + 1]

dedent(P) ==
  IF P.format.compact \/ P.format.concise THEN P
  ELSE [P EXCEPT !.indent = @ - 1]

_getIndent(P) == Len(IndentStyle) * P.indent

_maybeIndent(P, firstChar) ==
  IF P.indent # 0 /\ firstChar # "\n" /\ endsWith(P, "\n")
  THEN bufQueueIndentation(P, _getIndent(P))
  ELSE P

\* The index of the first character of str that is not a space, Len + 1 if
\* there is none.
RECURSIVE SkipSpaces(_, _)
SkipSpaces(str, i) ==
  IF i <= Len(str) /\ str[i] = " " THEN SkipSpaces(str, i + 1) ELSE i

\* PURE_ANNOTATION_RE.test of the text between `/*` and `*/`
IsPureAnnotation(str) ==
  \E c \in 1..Len(str) :
    /\ str[c] \in {"#__PURE__", "@__PURE__"}
    /\ \A d \in 1..Len(str) : d # c => str[d] \in {" ", "\n"}

\* The methods that write call one another in a circle (a write may print
\* the pending parenthesis or a comment, which is a write again): such a call
\* is Call(P, "method", <<arguments>>), which Call below passes on to the
\* method.
RECURSIVE Call(_, _, _)

\* The tail of _maybeAddParen and _maybeAddParenChar: the parenthesis is
\* printed and the terminator state the field held on entry is marked.
AddParen(P) ==
  [indent(Call(P, "token", <<(<<"(">>), FALSE>>))
     EXCEPT !.terminators[P.parenPushNewlineState].printed = TRUE]

_maybeAddParenChar(P, char) ==
  IF P.parenPushNewlineState = Null THEN P
  ELSE IF char = " " THEN P
  ELSE IF char # "\n" THEN [P EXCEPT !.parenPushNewlineState = Null]
  ELSE AddParen(P)

\* What _maybeAddParen makes of the text: "space" (whitespace only),
\* "token" (the parenthesis is no longer needed), "pure" (a #__PURE__
\* comment) or "paren" (a line feed or a comment).
ParenCase(str, i) ==
  IF i = Len(str) + 1 THEN "space"
  ELSE IF str[i] = "\n" THEN "paren"
  ELSE IF str[i] # "/" \/ i = Len(str) THEN "token"
  ELSE IF str[i + 1] = "*"
    THEN (IF IsPureAnnotation(SubSeq(str, i + 2, Len(str) - 2))
          THEN "pure" ELSE "paren")
  ELSE IF str[i + 1] # "/" THEN "token"
  ELSE "paren"

_maybeAddParen(P, str) ==
  IF P.parenPushNewlineState = Null THEN P
  ELSE LET case == ParenCase(str, SkipSpaces(str, 1))
       IN IF case = "paren" THEN AddParen(P)
          ELSE IF case = "token" THEN [P EXCEPT !.parenPushNewlineState = Null]
          ELSE P

_queue(P, char) ==
  [bufQueue(_maybeIndent(_maybeAddParenChar(P, char), char), char)
     EXCEPT !.endsWithWord = FALSE, !.endsWithInteger = FALSE]

_space(P) == Call(P, "_queue", <<" ">>)

_newline(P) == Call(P, "_queue", <<"\n">>)

\* k names the kind of piece the text becomes in the buffer.
_append(P, str, maybeNewline, k) ==
  [bufAppend(_maybeIndent(_maybeAddParen(P, str), str[1]), k, str)
     EXCEPT !.endsWithWord = FALSE, !.endsWithInteger = FALSE]

_appendChar(P, char) ==
  [bufAppend(_maybeIndent(_maybeAddParenChar(P, char), char),
             IF char = ";" THEN "semicolon" ELSE "token", <<char>>)
     EXCEPT !.endsWithWord = FALSE, !.endsWithInteger = FALSE]

space(P, force) ==
  IF P.format.compact THEN P
  ELSE IF force THEN _space(P)
  ELSE IF hasContent(P) /\ getLastChar(P) # " " /\ getLastChar(P) # "\n"
    THEN _space(P)
  ELSE P

\* for (j = 0; j < n; j++) this._newline()
RECURSIVE Newlines(_, _)
Newlines(P, n) == IF n <= 0 THEN P ELSE Newlines(_newline(P), n - 1)

newline(P, i, force) ==
  IF i <= 0 THEN P
  ELSE IF ~force /\ (P.format.retainLines \/ P.format.compact) THEN P
  ELSE IF ~force /\ P.format.concise THEN space(P, FALSE)
  ELSE Newlines(P, Min(i, 2) - getNewlineCount(P))

\* loc is anything with hasLoc, startLine and endLine: a node or a comment.
_catchUp(P, prop, loc) ==
  IF ~P.format.retainLines THEN P
  ELSE IF ~loc.hasLoc THEN P
  ELSE LET line == IF prop = "start" THEN loc.startLine ELSE loc.endLine
       IN Newlines(P, line - getCurrentLine(P))

\* source / exactSource: the catch-up, then the source-map mark (not kept).
source(P, prop, loc) == IF ~loc.hasLoc THEN P ELSE _catchUp(P, prop, loc)

\* ----------------------------------------------------- Printer: comments
\* The hint, and the printer with the comment recorded as printed.
\* this._printedComments.has(comment)
hasPrintedMutant(P, id) == FALSE

hasPrinted(P, id) == id \in P.printedComments

_shouldPrintCommentMutant(P, id) ==
  LET comment == CommentTable[id]
      P1 == [P EXCEPT !.printedComments = @ \cup {id}]
  IN IF comment.ignore THEN [hint |-> "SKIP", P |-> P]
     ELSE IF hasPrinted(P, id)
       THEN [hint |-> "SKIP", P |-> P]
     ELSE IF P.noLineTerminator /\ (comment.nl \/ comment.end)
       THEN [hint |-> "DEFER", P |-> P1]
     ELSE IF comment.value \in P.format.rejectedComments
       THEN [hint |-> "SKIP", P |-> P1]
     ELSE [hint |-> "ALLOW", P |-> P1]

_shouldPrintComment(P, id) ==
  LET comment == CommentTable[id]
  IN IF comment.ignore THEN [hint |-> "SKIP", P |-> P]
     ELSE IF hasPrinted(P, id)
       THEN [hint |-> "SKIP", P |-> P]
     ELSE IF P.noLineTerminator /\ (comment.nl \/ comment.end)
       THEN [hint |-> "DEFER", P |-> P]
     ELSE LET P1 == [P EXCEPT !.printedComments = @ \cup {id}]
          IN IF comment.value \in P.format.rejectedComments
             THEN [hint |-> "SKIP", P |-> P1]
             ELSE [hint |-> "ALLOW", P |-> P1]

_printComment(P, comment, skipNewLines) ==
  LET noLineTerminator == P.noLineTerminator
      isBlockComment == comment.type = "CommentBlock"
      printNewLines == /\ isBlockComment
                       /\ skipNewLines # "ALL"
                       /\ ~P.noLineTerminator
      val == IF isBlockComment \/ noLineTerminator
             THEN BlockCommentText(comment) ELSE LineCommentText(comment)
      NewlineBefore(Q) ==
        IF /\ printNewLines
           /\ hasContent(Q)
           /\ skipNewLines # "LEADING"
        THEN newline(Q, 1, FALSE) ELSE Q
      SpaceBefore(Q) ==
        IF getLastChar(Q) # "[" /\ getLastChar(Q) # "{"
        THEN space(Q, FALSE) ELSE Q
      AvoidSlashSlash(Q) == IF endsWith(Q, "/") THEN _space(Q) ELSE Q
      Write(Q) == Call(source(Q, "start", comment), "_append",
                       <<val, isBlockComment, "comment">>)
      NewlineAfterLine(Q) ==
        IF ~isBlockComment /\ ~noLineTerminator
        THEN newline(Q, 1, TRUE) ELSE Q
      NewlineAfter(Q) ==
        IF printNewLines /\ skipNewLines # "TRAILING"
        THEN newline(Q, 1, FALSE) ELSE Q
  IN NewlineAfter(NewlineAfterLine(Write(AvoidSlashSlash(SpaceBefore(
       NewlineBefore(P))))))

\* One turn of the loop of _printComments for a comment that is printed
\* (hint ALLOW), from the loop's variables S = [P, hasLoc, lastLine,
\* leadingCommentNewline] to their next values. A holds the arguments and
\* what is fixed before the loop. A newline of offset 0 is no newline.
_printCommentsAllowed(A, S, i) ==
  LET len == Len(A.comments)
      comment == CommentTable[A.comments[i]]
      node == A.node
      parent == A.parent
      nodeStartLine == IF node.hasLoc THEN node.startLine ELSE 0
      nodeEndLine == IF node.hasLoc THEN node.endLine ELSE 0
      commentStartLine == comment.startLine
      commentEndLine == comment.endLine
      located == S.hasLoc /\ comment.hasLoc
      wrap == /\ i = 1
              /\ hasContent(S.P)
              /\ (comment.type = "CommentLine"
                  \/ commentStartLine # commentEndLine)
      lcn == IF located /\ A.type = "LEADING" /\ wrap
             THEN 1 ELSE S.leadingCommentNewline
      singleLine == IF comment.hasLoc
                    THEN commentStartLine = commentEndLine
                    ELSE ~comment.nl
      \* isFunction(parent, { body: node })
      isFunctionBody == /\ parent.type = "FunctionExpression"
                        /\ node.type = "BlockStatement"
      shouldSkipNewline == /\ singleLine
                           /\ ~isStatement(node)
                           /\ parent.type # "ClassBody"
                           /\ parent.type # "TSInterfaceBody"
                           /\ parent.type # "TSEnumDeclaration"
      \* newline before the comment
      before ==
        IF ~located THEN 0
        ELSE IF A.type = "LEADING"
          THEN (IF i = 1 THEN (IF wrap THEN 1 ELSE 0)
                ELSE commentStartLine - S.lastLine)
        ELSE IF A.type = "INNER"
          THEN commentStartLine - (IF i = 1 THEN nodeStartLine ELSE S.lastLine)
        ELSE commentStartLine
             - (IF i = 1 THEN nodeEndLine - A.lineOffset ELSE S.lastLine)
      skip ==
        IF located THEN "ALL"
        ELSE IF len = 1 THEN
          IF A.type = "LEADING" THEN
            IF \/ (shouldSkipNewline /\ node.type # "ObjectExpression")
               \/ (singleLine /\ isFunctionBody)
            THEN "ALL"
            ELSE "DEFAULT"
          ELSE IF shouldSkipNewline /\ A.type = "TRAILING"
            THEN "ALL"
          ELSE "DEFAULT"
        ELSE IF /\ A.type = "INNER"
                /\ ~(node.type = "ObjectExpression" /\ node.properties > 1)
                /\ node.type # "ClassBody"
                /\ node.type # "TSInterfaceBody"
          THEN IF i = 1 THEN "LEADING"
               ELSE IF i = len THEN "TRAILING"
               ELSE "DEFAULT"
        ELSE "DEFAULT"
      \* newline after the last comment of the list
      after ==
        IF ~located \/ i # len THEN 0
        ELSE IF A.type = "LEADING"
          THEN Max(nodeStartLine - commentEndLine, lcn)
        ELSE IF A.type = "INNER"
          THEN Min(1, nodeEndLine - commentEndLine)
        ELSE 0
      lastLine ==
        IF ~located THEN S.lastLine
        ELSE IF i = len /\ A.type = "LEADING" THEN nodeStartLine
        ELSE IF i = len /\ A.type = "INNER" THEN nodeEndLine
        ELSE commentEndLine
      maybeNewline(Q, offset) ==
        IF A.noLineTerminator THEN Q ELSE newline(Q, offset, FALSE)
  IN [P |-> maybeNewline(
              Call(maybeNewline(S.P, before), "_printComment",
                   <<comment, skip>>), after),
      hasLoc |-> located,
      lastLine |-> lastLine,
      leadingCommentNewline |-> lcn]

\* The loop of _printComments from its i-th comment on.
RECURSIVE _printCommentsLoop(_, _, _)
_printCommentsLoop(A, S, i) ==
  IF i > Len(A.comments) THEN S
  ELSE
    LET Turn(should) ==
          IF should.hint = "DEFER"
            THEN [S EXCEPT !.P = should.P, !.hasLoc = FALSE]
          ELSE IF should.hint = "ALLOW"
            THEN _printCommentsLoop(A,
                   _printCommentsAllowed(A, [S EXCEPT !.P = should.P], i),
                   i + 1)
          ELSE _printCommentsLoop(A,
                 [S EXCEPT !.P = should.P, !.hasLoc = FALSE], i + 1)
    IN Turn(_shouldPrintComment(S.P, A.comments[i]))

_printComments(P, type, commentList, node, parent, lineOffset) ==
  LET A == [type |-> type, comments |-> commentList, node |-> node,
            parent |-> parent, lineOffset |-> lineOffset,
            noLineTerminator |-> P.noLineTerminator]
      End(S) ==
        IF type = "TRAILING" /\ S.hasLoc /\ S.lastLine # 0
        THEN [S.P EXCEPT !.lastCommentLine = S.lastLine]
        ELSE S.P
  IN End(_printCommentsLoop(A, [P |-> P, hasLoc |-> node.hasLoc,
                                lastLine |-> 0,
                                leadingCommentNewline |-> 0], 1))

_printLeadingComments(P, node, parent) ==
  IF node.leadingComments = <<>> THEN P
  ELSE Call(P, "_printComments",
            <<"LEADING", node.leadingComments, node, parent, 0>>)

_printTrailingComments(P, node, parent, lineOffset) ==
  LET Trailing(Q) ==
        IF node.trailingComments = <<>> THEN Q
        ELSE Call(Q, "_printComments",
                  <<"TRAILING", node.trailingComments, node, parent,
                    lineOffset>>)
  IN Trailing(IF node.innerComments = <<>> THEN P
              ELSE Call(P, "_printComments",
                        <<"TRAILING", node.innerComments, node,
                          parent, lineOffset>>))

printInnerComments(P) ==
  LET node == Last(P.printStack)
      hasSpace == endsWith(P, " ")
      printedCommentsCount == Cardinality(P.printedComments)
      SpaceAfter(Q) ==
        IF hasSpace /\ printedCommentsCount # Cardinality(Q.printedComments)
        THEN space(Q, FALSE) ELSE Q
  IN IF node.innerComments = <<>> THEN P
     ELSE IF P.indentInnerComments
       THEN dedent(SpaceAfter(Call(indent(P), "_printComments",
                     <<"INNER", node.innerComments, node, NoNode,
                       0>>)))
     ELSE SpaceAfter(Call(P, "_printComments",
            <<"INNER", node.innerComments, node, NoNode, 0>>))

_maybePrintInnerComments(P) ==
  [(IF P.endsWithInnerRaw THEN Call(P, "printInnerComments", <<>>) ELSE P)
     EXCEPT !.endsWithInnerRaw = TRUE, !.indentInnerComments = TRUE]

_printAuxBeforeComment(P) ==
  IF P.printAuxAfterOnNextUserNode THEN P
  ELSE IF P.format.auxiliaryCommentBefore # ""
    THEN Call([P EXCEPT !.printAuxAfterOnNextUserNode = TRUE],
              "_printComment",
              <<AuxComment(P.format.auxiliaryCommentBefore),
                "DEFAULT">>)
  ELSE [P EXCEPT !.printAuxAfterOnNextUserNode = TRUE]

_printAuxAfterComment(P) ==
  IF ~P.printAuxAfterOnNextUserNode THEN P
  ELSE IF P.format.auxiliaryCommentAfter # ""
    THEN Call([P EXCEPT !.printAuxAfterOnNextUserNode = FALSE],
              "_printComment",
              <<AuxComment(P.format.auxiliaryCommentAfter),
                "DEFAULT">>)
  ELSE [P EXCEPT !.printAuxAfterOnNextUserNode = FALSE]

_maybeAddAuxComment(P, enteredPositionlessNode) ==
  LET After(Q) == IF ~Q.insideAux THEN _printAuxAfterComment(Q) ELSE Q
  IN After(IF enteredPositionlessNode THEN _printAuxBeforeComment(P) ELSE P)

\* ------------------------------------------------ Printer: token writes
token(P, str, maybeNewline) ==
  LET strFirst == str[1]
      Separate(Q) ==
        IF \/ (getLastChar(Q) = "!"
               /\ (str = <<"-", "-">> \/ strFirst = "="))
           \/ (strFirst = "+" /\ getLastChar(Q) = "+")
           \/ (strFirst = "-" /\ getLastChar(Q) = "-")
           \/ (strFirst = "." /\ Q.endsWithInteger)
        THEN _space(Q) ELSE Q
  IN [Call(Call(Separate(_maybePrintInnerComments(P)),
                "_maybeAddAuxComment", <<FALSE>>),
           "_append", <<str, maybeNewline, "token">>)
        EXCEPT !.noLineTerminator = FALSE]

tokenChar(P, char) ==
  LET Separate(Q) ==
        IF \/ (char = "+" /\ getLastChar(Q) = "+")
           \/ (char = "-" /\ getLastChar(Q) = "-")
           \/ (char = "." /\ Q.endsWithInteger)
        THEN _space(Q) ELSE Q
  IN [Call(Call(Separate(_maybePrintInnerComments(P)),
                "_maybeAddAuxComment", <<FALSE>>),
           "_appendChar", <<char>>)
        EXCEPT !.noLineTerminator = FALSE]

word(P, str, noLineTerminatorAfter) ==
  LET Separate(Q) ==
        IF Q.endsWithWord \/ (str[1] = "/" /\ endsWith(Q, "/"))
        THEN _space(Q) ELSE Q
  IN [Call(Call(Separate(_maybePrintInnerComments(P)),
                "_maybeAddAuxComment", <<FALSE>>),
           "_append", <<str, FALSE, "word">>)
        EXCEPT !.endsWithWord = TRUE,
               !.noLineTerminator = noLineTerminatorAfter]

\* Number.isInteger(+str) of a numeric literal without exponent: no digit
\* other than 0 follows the dot, and the text holds no numeric separator
\* (+"1_0" is NaN). (A literal with an exponent fails the
\* SCIENTIFIC_NOTATION test whatever its value.)
NumberIsInteger(str) ==
  /\ \A i \in 1..Len(str) : str[i] # "_"
  /\ ~\E i, j \in 1..Len(str) :
        /\ i < j
        /\ str[i] = "."
        /\ str[j] \in {"1", "2", "3", "4", "5", "6", "7", "8", "9"}

\* /^0[box]/
NON_DECIMAL_LITERAL(str) ==
  Len(str) >= 2 /\ str[1] = "0" /\ str[2] \in {"b", "o", "x"}

\* /e/i
SCIENTIFIC_NOTATION(str) == \E i \in 1..Len(str) : str[i] \in {"e", "E"}

\* /\.0+$/
ZERO_DECIMAL_INTEGER(str) ==
  \E i \in 1..(Len(str) - 1) :
    str[i] = "." /\ \A j \in (i + 1)..Len(str) : str[j] = "0"

number(P, str) ==
  [word(P, str, FALSE) EXCEPT
     !.endsWithInteger = /\ NumberIsInteger(str)
                         /\ ~NON_DECIMAL_LITERAL(str)
                         /\ ~SCIENTIFIC_NOTATION(str)
                         /\ ~ZERO_DECIMAL_INTEGER(str)
                         /\ Last(str) # "."]

\* ----------------------------------------------------- Printer: print
NoError == [name |-> "", type |-> ""]

\* print(node, parent, ...) up to the call of the node's print method. The
\* result tells how the call went on: "returned" (null node), "threw", or
\* "entered" (the print method runs next); needsParens stands for
\* forceParens || ... || needsParens(node, parent, printStack).
\* this[nodeType] === undefined
printMethodUndefinedMutant(nodeType) == FALSE

printMethodUndefined(nodeType) == nodeType \notin PrintableTypes

print(P, node, parent, needsParens) ==
  LET Called(outcome, error, Q) ==
        [outcome |-> outcome, error |-> error, P |-> Q,
         oldConcise |-> P.format.concise, oldInAux |-> P.insideAux]
      Start(Q) ==
        [Q EXCEPT !.endsWithInnerRaw = FALSE,
                  !.format.concise = IF node.compact THEN TRUE ELSE @]
      Push(Q) ==
        [Q EXCEPT !.printStack = Append(@, node), !.insideAux = ~node.hasLoc]
      AddAuxComment(Q) ==
        Call(Q, "_maybeAddAuxComment", <<Q.insideAux /\ ~P.insideAux>>)
      OpenParen(Q) ==
        IF needsParens
        THEN [Call(Q, "token", <<(<<"(">>), FALSE>>)
                EXCEPT !.endsWithInnerRaw = FALSE]
        ELSE Q
      LeadingComments(Q) ==
        _printLeadingComments([Q EXCEPT !.lastCommentLine = 0], node, parent)
      ExactSource(Q) ==
        IF node.type = "Program" THEN Q ELSE source(Q, "start", node)
  IN IF node = NoNode THEN Called("returned", NoError, P)
     ELSE IF printMethodUndefined(node.type)
       THEN Called("threw",
                   [name |-> "ReferenceError", type |-> node.type], Start(P))
     ELSE Called("entered", NoError,
                 ExactSource(LeadingComments(OpenParen(AddAuxComment(Push(
                   Start(P)))))))

\* print after the node's print method has returned; f holds the locals.
printEnd(P, f) ==
  LET TrailingComments(Q) ==
        IF f.shouldPrintParens THEN
          [Call(_printTrailingComments(Q, f.node, f.parent, 0), "token",
                <<(<<")">>), FALSE>>)
             EXCEPT !.noLineTerminator = f.noLineTerminatorAfter]
        ELSE IF f.noLineTerminatorAfter /\ ~Q.noLineTerminator THEN
          _printTrailingComments([Q EXCEPT !.noLineTerminator = TRUE],
                                 f.node, f.parent, 0)
        ELSE _printTrailingComments(Q, f.node, f.parent,
                                    f.trailingCommentsLineOffset)
  IN [TrailingComments(P)
        EXCEPT !.printStack = SubSeq(@, 1, Len(@) - 1),
               !.format.concise = f.oldConcise,
               !.insideAux = f.oldInAux,
               !.endsWithInnerRaw = FALSE]

\* A call of a method that writes.
Call(P, method, a) ==
  CASE method = "token" -> token(P, a[1], a[2])
    [] method = "_queue" -> _queue(P, a[1])
    [] method = "_append" -> _append(P, a[1], a[2], a[3])
    [] method = "_appendChar" -> _appendChar(P, a[1])
    [] method = "_printComment" -> _printComment(P, a[1], a[2])
    [] method = "_printComments" ->
         _printComments(P, a[1], a[2], a[3], a[4], a[5])
    [] method = "printInnerComments" -> printInnerComments(P)
    [] method = "_maybeAddAuxComment" -> _maybeAddAuxComment(P, a[1])
    [] method = "print" -> print(P, a[1], a[2], a[3])
    [] method = "printEnd" -> printEnd(P, a[1])

\* printTerminatorless up to its print call: the label case forbids a line
\* terminator, the other one arms the latch with a new terminatorState.
printTerminatorless(P, isLabel) ==
  IF isLabel THEN [P EXCEPT !.noLineTerminator = TRUE]
  ELSE [P EXCEPT !.terminators = Append(@, [printed |-> FALSE]),
                 !.parenPushNewlineState = Len(P.terminators) + 1]

\* printTerminatorless after its print call; terminator is the
\* terminatorState of the call, Null in the label case.
\* printJoin of one node without separator, with opts.indent given and
\* opts.statement not set: up to its print call, and after it.
printJoin(P, indented) == IF indented THEN indent(P) ELSE P
printJoinEnd(P, indented) == IF indented THEN dedent(P) ELSE P

\* generate after this.print(ast)
generateEnd(P) == Call(P, "_maybeAddAuxComment", <<FALSE>>)

printTerminatorlessEndMutant(P, terminator) == P
printTerminatorlessEnd(P, terminator) ==
  IF terminator # Null /\ P.terminators[terminator].printed
  THEN Call(newline(dedent(P), 1, FALSE), "token", <<(<<")">>), FALSE>>)
  ELSE P

\* The printer the constructor leaves.
NewPrinter(format) ==
  [format |-> format, buf |-> <<>>, queued |-> 0, printStack |-> <<>>,
   indent |-> 0, insideAux |-> FALSE, parenPushNewlineState |-> Null,
   terminators |-> <<>>, noLineTerminator |-> FALSE,
   printAuxAfterOnNextUserNode |-> FALSE, printedComments |-> {},
   endsWithInteger |-> FALSE, endsWithWord |-> FALSE, lastCommentLine |-> 0,
   endsWithInnerRaw |-> FALSE, indentInnerComments |-> TRUE]

Format(compact, concise, retainLines, aux, rejected) ==
  [compact |-> compact, concise |-> concise, retainLines |-> retainLines,
   auxiliaryCommentBefore |-> IF aux THEN "before" ELSE "",
   auxiliaryCommentAfter |-> IF aux THEN "after" ELSE "",
   rejectedComments |-> rejected]

\* A node: its type, its location (lines), its comment lists.
Node(type, startLine, endLine, leading, inner, trailing, compact) ==
  [type |-> type, hasLoc |-> startLine # 0, startLine |-> startLine,
   endLine |-> endLine, leadingComments |-> leading, innerComments |-> inner,
   trailingComments |-> trailing, compact |-> compact, properties |-> 0]

\* --------------------------------------------------- Printer: the calls
\* One generate run: the calls a run makes on the printer, in the order the
\* print methods of the nodes make them. frames holds the print calls that
\* have called their node's print method and not yet gone on; budget is the
\* number of calls the run may still make; lastPrint tells how the call just
\* made went if it was a print call, and which method was called with which
\* text if it was not.
NoPrint == [node |-> NoNode, outcome |-> "none", error |-> NoError, call |-> [method |-> "", str |-> <<>>]]

MethodCall(method, str) == [NoPrint EXCEPT !.call = [method |-> method, str |-> str]]

\* A ReferenceError left print: the run is over.
Aborted == lastPrint.outcome = "threw"

InPrintMethod == frames # <<>> /\ ~Aborted /\ budget > 0

\* A print call that comes from caller ("print", "printTerminatorless" or
\* "printJoin") with the printer Q the caller has prepared; terminator is
\* the terminatorState of a printTerminatorless call, indented the indent
\* a printJoin call has made. The frame keeps, as
\* entry, what the printer held when the caller was called.
PrintFrom(caller, terminator, indented, Q, node, needsParens, noLineTerminatorAfter, trailingCommentsLineOffset) ==
  /\ ~Aborted
  /\ budget > 0
  /\ LET parent == IF frames = <<>> THEN NoNode ELSE Last(frames).node
         r == Call(Q, "print", <<node, parent, needsParens>>)
     IN /\ printer' = r.P
        /\ frames' =
             IF r.outcome = "entered"
             THEN Append(frames,
                    [node |-> node, parent |-> parent,
                     oldConcise |-> r.oldConcise, oldInAux |-> r.oldInAux,
                     caller |-> caller, terminator |-> terminator,
                     indent |-> indented,
                     entry |-> [written |-> Len(printer.buf),
                                indent |-> printer.indent,
                                concise |-> printer.format.concise,
                                printStack |-> printer.printStack],
                     shouldPrintParens |-> needsParens,
                     noLineTerminatorAfter |-> noLineTerminatorAfter,
                     trailingCommentsLineOffset |-> trailingCommentsLineOffset])
             ELSE frames
        /\ lastPrint' =
             [MethodCall(caller, <<>>) EXCEPT !.node = node, !.outcome = r.outcome, !.error = r.error]
  /\ budget' = budget - 1
  /\ UNCHANGED notPrinterVars

PrintNode(node, needsParens, noLineTerminatorAfter, trailingCommentsLineOffset) ==
  PrintFrom("print", Null, FALSE, printer, node, needsParens, noLineTerminatorAfter, trailingCommentsLineOffset)

\* The print method of the innermost node returns: print goes on to its
\* end, and so does the printTerminatorless, printJoin or generate call
\* that made the print call.
PrintReturn ==
  /\ InPrintMethod
  /\ printer' = LET f == Last(frames)
                    P == Call(printer, "printEnd", <<f>>)
                IN CASE f.caller = "printTerminatorless" -> printTerminatorlessEnd(P, f.terminator)
                     [] f.caller = "generate" -> generateEnd(P)
                     [] f.caller = "printJoin" -> printJoinEnd(P, f.indent)
                     [] OTHER -> P
  /\ frames' = SubSeq(frames, 1, Len(frames) - 1)
  /\ lastPrint' = [MethodCall(Last(frames).caller, <<>>) EXCEPT !.node = Last(frames).node, !.outcome = "finished"]
  /\ budget' = budget - 1
  /\ UNCHANGED notPrinterVars

Word(str, noLineTerminatorAfter) ==
  /\ InPrintMethod
  /\ printer' = word(printer, str, noLineTerminatorAfter)
  /\ lastPrint' = MethodCall("word", str)
  /\ budget' = budget - 1
  /\ UNCHANGED <<frames, notPrinterVars>>

Number(str) ==
  /\ InPrintMethod
  /\ printer' = number(printer, str)
  /\ lastPrint' = MethodCall("number", str)
  /\ budget' = budget - 1
  /\ UNCHANGED <<frames, notPrinterVars>>

Token(str) ==
  /\ InPrintMethod
  /\ printer' = token(printer, str, FALSE)
  /\ lastPrint' = MethodCall("token", str)
  /\ budget' = budget - 1
  /\ UNCHANGED <<frames, notPrinterVars>>

TokenChar(char) ==
  /\ InPrintMethod
  /\ printer' = tokenChar(printer, char)
  /\ lastPrint' = MethodCall("tokenChar", <<char>>)
  /\ budget' = budget - 1
  /\ UNCHANGED <<frames, notPrinterVars>>

\* The text written so far, piece by piece.
Pieces == printer.buf

\* ------------------------------------------- Printer: runs of token writes
MaxWrites == 3

\* Every format; a program without comments and one with an inner comment.
InitWrites ==
  /\ printer \in
       {NewPrinter(Format(compact, concise, retainLines, FALSE, {})) :
          compact \in BOOLEAN, concise \in BOOLEAN, retainLines \in BOOLEAN}
  /\ frames = <<>>
  /\ budget = MaxWrites + 1
  /\ lastPrint = NoPrint
  /\ IdleNotPrinter

NextWrites ==
  \/ /\ frames = <<>>
     /\ \E inner \in {<<>>, <<1>>} :
          PrintNode(Node("Program", 1, 1, <<>>, inner, <<>>, FALSE),
                    FALSE, FALSE, 0)
  \/ \E str \in {<<"a">>, <<"/", "r", "/">>} : Word(str, FALSE)
  \/ \E str \in {<<"1">>, <<"1", ".", "5">>} : Number(str)
  \/ \E str \in {<<"!">>, <<"=">>, <<"=", "=">>, <<"-", "-">>, <<"+">>,
                  <<"-">>, <<"/">>, <<".">>} : Token(str)
  \/ \E char \in {"!", "=", "+", "-", "/", "."} : TokenChar(char)

SpecWrites == InitWrites /\ [][NextWrites]_vars

\* A piece a token write made.
IsToken(p) == p.k \in {"word", "token"}

\* The second piece may not directly follow the first.
NeedsSpace(p, q) ==
  \/ p.k = "word" /\ q.k = "word"
  \/ Last(p.s) = "!" /\ (q.s = <<"-", "-">> \/ q.s[1] = "=")
  \/ Last(p.s) = "+" /\ q.s[1] = "+"
  \/ Last(p.s) = "-" /\ q.s[1] = "-"
  \/ Last(p.s) = "/" /\ q.s[1] = "/"

\* C8: in every format, no two tokens written one after the other stand
\* side by side in the output when they are two word-like tokens, `!` and
\* `--` or a token starting with `=`, `+` and a token starting with `+`, `-`
\* and a token starting with `-`, or `/` and a token starting with `/`: a
\* space separates them.
C8_SpaceBetweenTokens ==
  \A i \in 1..(Len(Pieces) - 1) :
    (IsToken(Pieces[i]) /\ IsToken(Pieces[i + 1]))
      => ~NeedsSpace(Pieces[i], Pieces[i + 1])

\* ------------------------------------------------ Printer: runs of print
MaxCalls == 4

\* The nodes printed: a statement whose leading and trailing comments share
\* a comment, a node without location (so an auxiliary one) with inner
\* comments, one of which is flagged ignore, and a node of a type no print
\* method exists for.
PrintNodes ==
  {Node("ExpressionStatement", 1, 2, <<1, 3>>, <<>>, <<1, 2>>, FALSE),
   Node("Identifier", 0, 0, <<2>>, <<3, 4>>, <<1>>, TRUE),
   Node("Unknown", 1, 1, <<1>>, <<>>, <<>>, FALSE)}

InitPrint ==
  /\ printer \in
       {NewPrinter(Format(compact, FALSE, FALSE, aux, rejected)) :
          compact \in BOOLEAN, aux \in BOOLEAN, rejected \in {{}, {"c2"}}}
  /\ frames = <<>>
  /\ budget = MaxCalls
  /\ lastPrint = NoPrint
  /\ IdleNotPrinter

\* o is <<needsParens, noLineTerminatorAfter>>.
NextPrint ==
  \/ \E node \in PrintNodes \cup {NoNode},
        o \in {<<FALSE, FALSE>>, <<TRUE, FALSE>>, <<FALSE, TRUE>>} :
       PrintNode(node, o[1], o[2], 0)
  \/ PrintReturn
  \/ \E noLineTerminatorAfter \in BOOLEAN :
       Word(<<"a">>, noLineTerminatorAfter)

SpecPrint == InitPrint /\ [][NextPrint]_vars

\* How often the comment is written in the output.
TimesWritten(id) ==
  Cardinality({i \in 1..Len(Pieces) :
                 /\ Pieces[i].k = "comment"
                 /\ \E j \in 1..Len(Pieces[i].s) :
                      Pieces[i].s[j] = CommentTable[id].value})

\* C9: a print call of a node whose type has no print method throws a
\* ReferenceError naming the type, writes nothing and does not push the node
\* on the print stack; a print call of a null node changes nothing.
C9_UnknownNodeThrows ==
  [][lastPrint'.outcome \in {"returned", "threw", "entered"} =>
       /\ (lastPrint'.node # NoNode
           /\ lastPrint'.node.type \notin PrintableTypes) =>
             /\ lastPrint'.outcome = "threw"
             /\ lastPrint'.error =
                  [name |-> "ReferenceError", type |-> lastPrint'.node.type]
             /\ printer'.buf = printer.buf
             /\ printer'.queued = printer.queued
             /\ printer'.printStack = printer.printStack
             /\ frames' = frames
       /\ lastPrint'.node = NoNode =>
             /\ lastPrint'.outcome = "returned"
             /\ printer' = printer
             /\ frames' = frames]_vars

\* An unknown node was met inside the print of another node, after text was
\* written.
C9_Witness ==
  /\ lastPrint.outcome = "threw"
  /\ lastPrint.node.type = "Unknown"
  /\ printer.buf # <<>>
  /\ printer.printStack # <<>>

\* C10: every comment object is written at most once in the output, and a
\* comment flagged ignore is never written.
C10_CommentsWrittenOnce ==
  \A id \in 1..Len(CommentTable) :
    /\ TimesWritten(id) <= 1
    /\ CommentTable[id].ignore => TimesWritten(id) = 0

\* A node has been printed whose leading and trailing comments hold the
\* same comment: both lists were visited, the comment is written once.
C10_Witness ==
  /\ lastPrint.outcome = "finished"
  /\ \E i \in 1..Len(lastPrint.node.leadingComments) :
       \E j \in 1..Len(lastPrint.node.trailingComments) :
         /\ lastPrint.node.leadingComments[i] = lastPrint.node.trailingComments[j]
         /\ TimesWritten(lastPrint.node.leadingComments[i]) = 1

(***************************************************************************)
(*                       validate (babel-types)                            *)
(***************************************************************************)

\* NODE_FIELDS: the fields of each node type that has a schema; a field has
\* a validator or not and is optional or not.
NODE_FIELDS ==
  [Identifier |->
     [name |-> [validate |-> TRUE, optional |-> FALSE],
      typeAnnotation |-> [validate |-> TRUE, optional |-> TRUE],
      decorators |-> [validate |-> FALSE, optional |-> TRUE]],
   ExpressionStatement |->
     [expression |-> [validate |-> TRUE, optional |-> FALSE]]]

\* NODE_PARENT_VALIDATIONS: the node types that check where they are placed.
NODE_PARENT_VALIDATIONS == {"Identifier", "ExpressionStatement"}

\* The values passed as val: undefined, null, a primitive, or a node; valid
\* tells whether the field validators accept the value, placed whether the
\* parent-context validator of the value's type accepts the position.
Values ==
  [kind : {"undefined", "null"}, type : {""}, valid : {FALSE}, placed : {TRUE}]
    \cup [kind : {"primitive"}, type : {""}, valid : BOOLEAN, placed : {TRUE}]
    \cup [kind : {"node"}, type : {"Identifier", "StringLiteral"},
          valid : BOOLEAN, placed : BOOLEAN]

\* val == null, and !node for a node or null/undefined
IsNullish(val) == val.kind \in {"undefined", "null"}

\* The run of validate so far: the validators called, in order, and whether
\* the last one threw.
NoCalls == [calls |-> <<>>, threw |-> FALSE]

\* A validator called with (node, key, val); which is "field" or "parent",
\* owner the node type and field, or the node type, it is registered for.
CallValidator(T, which, owner, node, key, val, accepts) ==
  [calls |-> Append(T.calls, [which |-> which, owner |-> owner,
                              node |-> node, key |-> key, val |-> val]),
   threw |-> ~accepts]

\* field is <<>> when fields[key] is undefined, else <<the field>>.
validateField(T, node, key, val, field) ==
  IF field = <<>> \/ ~field[1].validate THEN T
  ELSE IF field[1].optional /\ IsNullish(val) THEN T
  ELSE CallValidator(T, "field", <<node.type, key>>, node, key, val, val.valid)

validateChildMutant(T, node, key, val) ==
  IF IsNullish(val) THEN T
  ELSE IF node.type \notin NODE_PARENT_VALIDATIONS THEN T
  ELSE CallValidator(T, "parent", <<node.type>>, node, key, val, val.placed)

validateChild(T, node, key, val) ==
  IF IsNullish(val) THEN T
  ELSE IF val.type \notin NODE_PARENT_VALIDATIONS THEN T
  ELSE CallValidator(T, "parent", <<val.type>>, node, key, val, val.placed)

validateMutant(node, key, val) ==
  IF IsNullish(node) THEN NoCalls
  ELSE IF node.type \notin DOMAIN NODE_FIELDS THEN NoCalls
  ELSE IF key \notin DOMAIN NODE_FIELDS[node.type] THEN NoCalls
  ELSE LET checked == validateField(NoCalls, node, key, val,
                                    <<NODE_FIELDS[node.type][key]>>)
       IN IF checked.threw THEN checked
          ELSE validateChild(checked, node, key, val)

\* validate(node, key, val).  A validator that throws ends the call.
validate(node, key, val) ==
  IF IsNullish(node) THEN NoCalls
  ELSE IF node.type \notin DOMAIN NODE_FIELDS THEN NoCalls
  ELSE LET fields == NODE_FIELDS[node.type]
           field == IF key \in DOMAIN fields THEN <<fields[key]>> ELSE <<>>
           checked == validateField(NoCalls, node, key, val, field)
       IN IF checked.threw THEN checked
          ELSE validateChild(checked, node, key, val)

InitValidate ==
  /\ args \in [node : [kind : {"undefined", "null"}, type : {""}]
                        \cup [kind : {"node"},
                              type : {"Identifier", "ExpressionStatement",
                                      "Directive"}],
               key : {"name", "typeAnnotation", "decorators", "expression"},
               val : Values]
  /\ result = NoResult
  /\ IdleNotCall

CallValidate ==
  /\ result = NoResult
  /\ result' = <<validate(args.node, args.key, args.val)>>
  /\ UNCHANGED <<args, notCallVars>>

NextValidate == CallValidate

SpecValidate == InitValidate /\ [][NextValidate]_vars

\* The field schema of the call's node type and key exists.
HasFieldSchema ==
  /\ ~IsNullish(args.node)
  /\ args.node.type \in DOMAIN NODE_FIELDS
  /\ args.key \in DOMAIN NODE_FIELDS[args.node.type]

\* C11 as stated: validate performs no validation at all (it calls neither
\* a field validator nor a parent-context validator) when node is
\* null/undefined or when no field schema exists for node.type and key.
C11_Original ==
  (result # NoResult /\ ~HasFieldSchema) => result[1].calls = <<>>

\* C11 amended: validate performs no validation at all when node is
\* null/undefined or when no fields are registered for node.type; when the
\* type has fields but none for key, no field validator is called, and the
\* parent-context validator of a non-null val's type, if one is registered,
\* is called with (node, key, val).
C11_NoFieldsNoValidation ==
  result # NoResult =>
    LET calls == result[1].calls
    IN /\ IsNullish(args.node) => calls = <<>>
       /\ (~IsNullish(args.node) /\ args.node.type \notin DOMAIN NODE_FIELDS)
            => calls = <<>>
       /\ (~IsNullish(args.node) /\ args.node.type \in DOMAIN NODE_FIELDS
             /\ ~HasFieldSchema) =>
            calls =
              IF ~IsNullish(args.val)
                   /\ args.val.type \in NODE_PARENT_VALIDATIONS
                THEN <<[which |-> "parent", owner |-> <<args.val.type>>,
                        node |-> args.node, key |-> args.key,
                        val |-> args.val]>>
              ELSE <<>>

\* validate(Identifier, "expression", Identifier node): Identifier has no
\* field "expression", and the parent-context validator of the value ran.
C11_Witness ==
  /\ result # NoResult
  /\ args.node.type = "Identifier"
  /\ args.key = "expression"
  /\ args.val.type = "Identifier"
  /\ Len(result[1].calls) = 1
  /\ result[1].calls[1].which = "parent"

\* C12: when a field schema exists, validate skips the field validator if
\* the field is optional and val is null/undefined, and otherwise calls the
\* field's validator with (node, key, val); for a non-null val it then also
\* calls the parent-context validator registered for val's own type, and
\* only after the field validator returned without error; a null/undefined
\* val never triggers a parent-context validator.
C12_FieldThenParent ==
  (result # NoResult /\ HasFieldSchema) =>
    LET field == NODE_FIELDS[args.node.type][args.key]
        calls == result[1].calls
        skipped == field.optional /\ IsNullish(args.val)
        fieldCalls == IF field.validate /\ ~skipped THEN 1 ELSE 0
        fieldFailed == fieldCalls = 1 /\ ~args.val.valid
        parentDue == /\ ~IsNullish(args.val)
                     /\ args.val.type \in NODE_PARENT_VALIDATIONS
                     /\ ~fieldFailed
    IN /\ Len(calls) = fieldCalls + (IF parentDue THEN 1 ELSE 0)
       /\ fieldCalls = 1 =>
            calls[1] = [which |-> "field", owner |-> <<args.node.type, args.key>>,
                        node |-> args.node, key |-> args.key,
                        val |-> args.val]
       /\ parentDue =>
            calls[Len(calls)] =
              [which |-> "parent", owner |-> <<args.val.type>>,
               node |-> args.node, key |-> args.key, val |-> args.val]
       /\ IsNullish(args.val) =>
            \A i \in 1..Len(calls) : calls[i].which # "parent"

\* validate(ExpressionStatement, "expression", Identifier node): the field
\* validator ran, then the parent-context validator of Identifier.
C12_Witness ==
  /\ result # NoResult
  /\ args.node.type = "ExpressionStatement"
  /\ args.key = "expression"
  /\ args.val.type = "Identifier"
  /\ Len(result[1].calls) = 2
  /\ result[1].calls[2].owner = <<"Identifier">>

(***************************************************************************)
(*                      The env preset (preset-env)                        *)
(***************************************************************************)

\* module-transformations: the module formats and their transform plugins.
moduleTransformations ==
  [auto |-> "transform-modules-commonjs",
   amd |-> "transform-modules-amd",
   commonjs |-> "transform-modules-commonjs",
   cjs |-> "transform-modules-commonjs",
   systemjs |-> "transform-modules-systemjs",
   umd |-> "transform-modules-umd"]

\* The values of the modules option; "false" stands for the boolean false.
ModuleOptions == {"false", "auto", "amd", "umd", "systemjs", "commonjs", "cjs"}

\* The elements of a sequence.
Range(s) == {s[i] : i \in 1..Len(s)}

\* A table restricted to some of its keys.
Restrict(f, S) == [x \in S \cap DOMAIN f |-> f[x]]

getModulesPluginNamesBothMutant(a) ==
  LET known == a.modules # "false" /\ a.modules \in DOMAIN a.transformations
      transform == /\ known
                   /\ a.shouldTransformDynamicImport
                   /\ a.shouldTransformESM
                   /\ a.modules # "umd"
  IN [names |->
        (IF known THEN <<a.transformations[a.modules]>> ELSE <<>>)
        \o (IF transform THEN <<"transform-dynamic-import">> ELSE <<>>)
        \o <<"syntax-dynamic-import">>
        \o <<IF a.shouldTransformExportNamespaceFrom
               THEN "transform-export-namespace-from"
             ELSE "syntax-export-namespace-from">>
        \o (IF a.shouldParseTopLevelAwait
              THEN <<"syntax-top-level-await">> ELSE <<>>)
        \o <<"syntax-import-meta">>,
      warnings |-> IF known /\ ~transform /\ a.shouldTransformDynamicImport
                     THEN 1 ELSE 0]

getModulesPluginNamesMutant(a) ==
  LET known == a.modules # "false" /\ a.modules \in DOMAIN a.transformations
      transform == /\ known
                   /\ a.shouldTransformDynamicImport
                   /\ a.shouldTransformESM
  IN [names |->
        (IF known /\ a.shouldTransformESM
           THEN <<a.transformations[a.modules]>> ELSE <<>>)
        \o <<IF transform THEN "transform-dynamic-import"
             ELSE "syntax-dynamic-import">>
        \o <<IF a.shouldTransformExportNamespaceFrom
               THEN "transform-export-namespace-from"
             ELSE "syntax-export-namespace-from">>
        \o (IF a.shouldParseTopLevelAwait
              THEN <<"syntax-top-level-await">> ELSE <<>>)
        \o <<"syntax-import-meta">>,
      warnings |-> IF known /\ ~transform /\ a.shouldTransformDynamicImport
                     THEN 1 ELSE 0]

\* getModulesPluginNames: the names pushed, in order, and the number of
\* console.warn calls.
getModulesPluginNames(a) ==
  LET known == a.modules # "false" /\ a.modules \in DOMAIN a.transformations
      transform == /\ known
                   /\ a.shouldTransformDynamicImport
                   /\ a.shouldTransformESM
                   /\ a.modules # "umd"
  IN [names |->
        (IF known /\ a.shouldTransformESM
           THEN <<a.transformations[a.modules]>> ELSE <<>>)
        \o <<IF transform THEN "transform-dynamic-import"
             ELSE "syntax-dynamic-import">>
        \o <<IF a.shouldTransformExportNamespaceFrom
               THEN "transform-export-namespace-from"
             ELSE "syntax-export-namespace-from">>
        \o (IF a.shouldParseTopLevelAwait
              THEN <<"syntax-top-level-await">> ELSE <<>>)
        \o <<"syntax-import-meta">>,
      warnings |-> IF known /\ ~transform /\ a.shouldTransformDynamicImport
                     THEN 1 ELSE 0]

\* The corejs option: not given (null or false), or a version.
CoreJSVersions ==
  {[given |-> FALSE, major |-> 0, version |-> ""],
   [given |-> TRUE, major |-> 2, version |-> "2.6.12"],
   [given |-> TRUE, major |-> 3, version |-> "3.30.0"]}

getPolyfillPluginsMutant(a) ==
  LET pluginOptions ==
        [method |-> a.useBuiltIns \o "-global",
         version |-> a.corejs.version,
         targets |-> a.polyfillTargets,
         include |-> a.include, exclude |-> a.exclude,
         proposals |-> a.proposals,
         shippedProposals |-> a.shippedProposals,
         debug |-> a.debug]
      coreJS == IF a.corejs.major = 2 THEN "pluginCoreJS2"
                ELSE "pluginCoreJS3"
      regeneratorPlugin ==
        IF a.regenerator
          THEN <<<<"pluginRegenerator",
                   [method |-> "usage-global", debug |-> a.debug]>>>>
        ELSE <<>>
  IN IF a.useBuiltIns \notin {"usage", "entry"} \/ ~a.corejs.given THEN <<>>
     ELSE <<<<coreJS, pluginOptions>>,
            <<"legacyBabelPolyfillPlugin", [usage |-> TRUE]>>>>
          \o regeneratorPlugin

\* getPolyfillPlugins: the list of <<plugin, options>> pairs.
getPolyfillPlugins(a) ==
  LET pluginOptions ==
        [method |-> a.useBuiltIns \o "-global",
         version |-> a.corejs.version,
         targets |-> a.polyfillTargets,
         include |-> a.include, exclude |-> a.exclude,
         proposals |-> a.proposals,
         shippedProposals |-> a.shippedProposals,
         debug |-> a.debug]
  IN IF a.useBuiltIns \notin {"usage", "entry"} \/ ~a.corejs.given THEN <<>>
     ELSE IF a.useBuiltIns = "usage"
       THEN (IF a.corejs.major = 2
               THEN <<<<"pluginCoreJS2", pluginOptions>>,
                      <<"legacyBabelPolyfillPlugin", [usage |-> TRUE]>>>>
             ELSE <<<<"pluginCoreJS3", pluginOptions>>,
                    <<"legacyBabelPolyfillPlugin",
                      [usage |-> TRUE, deprecated |-> TRUE]>>>>)
            \o (IF a.regenerator
                  THEN <<<<"pluginRegenerator",
                           [method |-> "usage-global", debug |-> a.debug]>>>>
                ELSE <<>>)
     ELSE IF a.corejs.major = 2
       THEN <<<<"legacyBabelPolyfillPlugin", [regenerator |-> a.regenerator]>>,
              <<"pluginCoreJS2", pluginOptions>>>>
     ELSE <<<<"pluginCoreJS3", pluginOptions>>,
            <<"legacyBabelPolyfillPlugin", [deprecated |-> TRUE]>>>>
          \o (IF ~a.regenerator
                THEN <<<<"removeRegeneratorEntryPlugin", pluginOptions>>>>
              ELSE <<>>)

\* Largest version number of a target platform.
MaxTargetVersion == 3

\* Targets: platform -> minimum version, for some of the platforms.
TargetSets ==
  UNION {[S -> 1..MaxTargetVersion] : S \in SUBSET {"chrome", "node"}}

\* The values of the useBuiltIns option; "false" stands for false.
BuiltInsOptions == {"false", "usage", "entry"}

\* ------------------------------------------ preset-env: plugin selection
\* plugins-compat-data: for each plugin, the lowest version of each platform
\* that supports the feature natively (a platform without entry has none).
pluginsList ==
  <<[name |-> "transform-class-properties",
     support |-> [chrome |-> 3, node |-> 3]],
    [name |-> "transform-unicode-sets-regex", support |-> [chrome |-> 3]],
    [name |-> "transform-regenerator", support |-> [chrome |-> 2]],
    [name |-> "transform-parameters", support |-> [chrome |-> 3, node |-> 2]],
    [name |-> "transform-typeof-symbol",
     support |-> [chrome |-> 2, node |-> 1]],
    [name |-> "transform-export-namespace-from",
     support |-> [chrome |-> 2, node |-> 2]]>>

\* The bugfix table: narrower plugins, and the narrower support of the
\* plugins they stand in for.
pluginsBugfixesList ==
  <<[name |-> "transform-parameters", support |-> [chrome |-> 2, node |-> 2]],
    [name |-> "bugfix/transform-edge-default-parameters",
     support |-> [chrome |-> 3, node |-> 2]]>>

overlappingPlugins ==
  [x \in {"transform-parameters"} |->
     {"bugfix/transform-edge-default-parameters"}]

\* shipped-proposals
proposalPlugins == {"transform-unicode-sets-regex"}
proposalSyntaxPlugins == <<"syntax-import-attributes">>
pluginSyntaxMap ==
  [x \in {"transform-unicode-sets-regex"} |-> "syntax-unicode-sets-regex"]

\* available-plugins: minimum host version of the plugins that have one.
minVersions ==
  [x \in {"transform-class-properties"} |-> Version(7, 12, 0)]

\* A Set in insertion order: add, add all of a list, delete all of a set.
SetAdd(items, x) == IF x \in Range(items) THEN items ELSE Append(items, x)

RECURSIVE AddAll(_, _)
AddAll(items, names) ==
  IF names = <<>> THEN items
  ELSE AddAll(SetAdd(items, Head(names)), Tail(names))

DeleteAll(items, S) == SelectSeq(items, LAMBDA x : x \notin S)

\* Object.assign({}, a, b) on tables kept as lists of entries.
RECURSIVE Assign(_, _)
Assign(a, b) ==
  IF b = <<>> THEN a
  ELSE LET e == Head(b)
           at == {i \in 1..Len(a) : a[i].name = e.name}
       IN Assign(IF at = {} THEN Append(a, e)
                 ELSE [i \in 1..Len(a) |-> IF i \in at THEN e ELSE a[i]],
                 Tail(b))

filterStageFromList(list, stageList) ==
  SelectSeq(list, LAMBDA e : e.name \notin stageList)

getPluginList(proposals, bugfixes) ==
  LET all == IF bugfixes THEN Assign(pluginsList, pluginsBugfixesList)
             ELSE pluginsList
  IN IF proposals THEN all ELSE filterStageFromList(all, proposalPlugins)

\* The support entry of a plugin in a table, <<>> when it has none.
SupportOf(compatData, name) ==
  LET at == {i \in 1..Len(compatData) : compatData[i].name = name}
  IN IF at = {} THEN <<>> ELSE compatData[CHOOSE i \in at : TRUE].support

\* isRequired: excluded, included, or some targeted platform lacks native
\* support at its targeted version; everything is required for no targets.
isRequired(name, targets, compatData, includes, excludes) ==
  IF name \in excludes THEN FALSE
  ELSE IF name \in includes THEN TRUE
  ELSE LET support == SupportOf(compatData, name)
       IN \/ DOMAIN targets = {}
          \/ \E env \in DOMAIN targets :
               \/ env \notin DOMAIN support
               \/ support[env] > targets[env]

\* filterItems: the required items of the table in table order (the syntax
\* plugin of an item that is not required), then the default includes that
\* are not excluded, less the default excludes that are not included.
RECURSIVE filterRequired(_, _, _, _, _, _)
filterRequired(list, compatData, includes, excludes, targets, syntaxMap) ==
  IF list = <<>> THEN <<>>
  ELSE LET item == Head(list).name
       IN (IF isRequired(item, targets, compatData, includes, excludes)
             THEN <<item>>
           ELSE IF item \in DOMAIN syntaxMap THEN <<syntaxMap[item]>>
           ELSE <<>>)
          \o filterRequired(Tail(list), compatData, includes, excludes,
                            targets, syntaxMap)

filterItems(list, incl, excl, targets, defaultIncl, defaultExcl, syntaxMap) ==
  LET required == AddAll(<<>>, filterRequired(list, list, incl, excl,
                                              targets, syntaxMap))
      included == AddAll(required,
                         SelectSeq(defaultIncl, LAMBDA x : x \notin excl))
  IN DeleteAll(included, defaultExcl \ incl)

getOptionSpecificExcludesFor(loose) ==
  IF loose THEN {"transform-typeof-symbol"} ELSE {}

removeUnsupportedItems(items, babelVersion) ==
  DeleteAll(items, {x \in DOMAIN minVersions :
                      VLess(babelVersion, minVersions[x])})

removeUnnecessaryItems(items, overlapping) ==
  DeleteAll(items, UNION {overlapping[x] :
                            x \in Range(items) \cap DOMAIN overlapping})

isPluginRequiredMutant(targets, support) ==
  \E env \in DOMAIN targets :
    env \in DOMAIN support /\ support[env] < targets[env]

isPluginRequired(targets, support) ==
  isRequired("fake-name", targets,
             <<[name |-> "fake-name", support |-> support]>>, {}, {})

transformIncludesAndExcludesMutant(opts) ==
  LET builtIn(opt) ==
        Len(opt) >= 1 /\ opt[1] \in {"es", "es6", "es7", "esnext", "web"}
  IN [all |-> opts,
      plugins |-> {opts[i] : i \in {j \in 1..Len(opts) : ~builtIn(opts[j])}},
      builtIns |-> {opts[i] : i \in {j \in 1..Len(opts) : builtIn(opts[j])}}]

\* transformIncludesAndExcludes: an entry is the list of its dot-separated
\* segments; it is a built-in when it starts with es., es6., es7., esnext.
\* or web., else a plugin.
transformIncludesAndExcludes(opts) ==
  LET builtIn(opt) ==
        Len(opt) >= 2 /\ opt[1] \in {"es", "es6", "es7", "esnext", "web"}
  IN [all |-> opts,
      plugins |-> {opts[i] : i \in {j \in 1..Len(opts) : ~builtIn(opts[j])}},
      builtIns |-> {opts[i] : i \in {j \in 1..Len(opts) : builtIn(opts[j])}}]

\* The browserslist configuration found for a config path and environment.
browserslistConfig(configPath, browserslistEnv) ==
  IF browserslistEnv # "" THEN [node |-> 1]
  ELSE IF configPath # "" THEN [chrome |-> 2, node |-> 2]
  ELSE [chrome |-> 1]

\* getLocalTargets -> getTargets: the explicit platforms, or without any
\* the browserslist configuration unless it is to be ignored.
getLocalTargets(optionsTargets, ignoreBrowserslistConfig, configPath, env) ==
  IF DOMAIN optionsTargets # {} THEN optionsTargets
  ELSE IF ignoreBrowserslistConfig THEN <<>>
  ELSE browserslistConfig(configPath, env)

LegacyTargetsMutant(api, opts) ==
  \/ VLess(api.version, Version(7, 13, 0))
  \/ opts.targets.given
  \/ opts.configPath # ""
  \/ opts.ignoreBrowserslistConfig

\* Whether the preset resolves the targets itself.
LegacyTargets(api, opts) ==
  \/ VLess(api.version, Version(7, 13, 0))
  \/ opts.targets.given
  \/ opts.configPath # ""
  \/ opts.browserslistEnv # ""
  \/ opts.ignoreBrowserslistConfig

\* availablePlugins[pluginName](): the implementation of a plugin.
getPlugin(pluginName) == "availablePlugins/" \o pluginName

PluginOptionsMutant(pluginName, spec, loose, useBuiltIns) ==
  IF pluginName = "syntax-import-attributes"
    THEN [deprecatedAssertSyntax |-> TRUE]
  ELSE [spec |-> spec, loose |-> loose,
        useBuiltIns |-> IF useBuiltIns # "false" THEN "true" ELSE "false"]

\* The options a selected plugin is given; useBuiltIns is false, "usage" or
\* "entry" for the preset and a boolean for the plugin ("false" and "true"
\* stand for the booleans).
PluginOptions(pluginName, spec, loose, useBuiltIns) ==
  IF pluginName \in {"transform-class-properties", "transform-private-methods",
                     "transform-private-property-in-object"}
    THEN [loose |->
            IF loose
              THEN "#__internal__@babel/preset-env__prefer-true-but-false-is-ok-if-it-prevents-an-error"
            ELSE "#__internal__@babel/preset-env__prefer-false-but-true-is-ok-if-it-prevents-an-error"]
  ELSE IF pluginName = "syntax-import-attributes"
    THEN [deprecatedAssertSyntax |-> TRUE]
  ELSE [spec |-> spec, loose |-> loose,
        useBuiltIns |-> IF useBuiltIns # "false" THEN "true" ELSE "false"]

\* api.caller?.(supports...)
CallerSupports(api, capability) == api.caller.given /\ api.caller[capability]

\* The preset: the targets resolved, the targets the transforms are
\* selected against, the plugin names selected, the plugins returned and
\* the number of warnings logged.
presetEnv(api, opts) ==
  LET legacy == LegacyTargets(api, opts)
      hasUglifyTarget == legacy /\ opts.targets.given /\ opts.targets.uglify
      targets ==
        IF legacy
          THEN getLocalTargets(opts.targets.platforms,
                               opts.ignoreBrowserslistConfig,
                               opts.configPath, opts.browserslistEnv)
        ELSE api.targets
      transformTargets ==
        IF opts.forceAllTransforms \/ hasUglifyTarget THEN <<>> ELSE targets
      include == transformIncludesAndExcludes(opts.include)
      exclude == transformIncludesAndExcludes(opts.exclude)
      includePlugins == {o[1] : o \in include.plugins}
      excludePlugins == {o[1] : o \in exclude.plugins}
      compatData == getPluginList(opts.shippedProposals, opts.bugfixes)
      shouldSkipExportNamespaceFrom ==
        \/ /\ opts.modules = "auto"
           /\ CallerSupports(api, "supportsExportNamespaceFrom")
        \/ /\ opts.modules = "false"
           /\ ~isRequired("transform-export-namespace-from",
                          transformTargets, compatData,
                          includePlugins, excludePlugins)
      modulesPlugins ==
        getModulesPluginNames(
          [modules |-> opts.modules,
           transformations |-> moduleTransformations,
           shouldTransformESM |->
             opts.modules # "auto" \/ ~CallerSupports(api, "supportsStaticESM"),
           shouldTransformDynamicImport |->
             \/ opts.modules # "auto"
             \/ ~CallerSupports(api, "supportsDynamicImport"),
           shouldTransformExportNamespaceFrom |->
             ~shouldSkipExportNamespaceFrom,
           shouldParseTopLevelAwait |->
             \/ ~api.caller.given
             \/ CallerSupports(api, "supportsTopLevelAwait")])
      filtered ==
        filterItems(compatData, includePlugins, excludePlugins,
                    transformTargets, modulesPlugins.names,
                    getOptionSpecificExcludesFor(opts.loose), pluginSyntaxMap)
      withSyntax == IF opts.shippedProposals
                      THEN AddAll(filtered, proposalSyntaxPlugins)
                    ELSE filtered
      pluginNames ==
        removeUnnecessaryItems(removeUnsupportedItems(withSyntax, api.version),
                               overlappingPlugins)
      polyfillPlugins ==
        getPolyfillPlugins(
          [useBuiltIns |-> opts.useBuiltIns, corejs |-> opts.corejs,
           polyfillTargets |-> targets,
           include |-> include.builtIns, exclude |-> exclude.builtIns,
           proposals |-> opts.proposals,
           shippedProposals |-> opts.shippedProposals,
           regenerator |-> "transform-regenerator" \in Range(pluginNames),
           debug |-> opts.debug])
  IN [targets |-> targets,
      transformTargets |-> transformTargets,
      pluginNames |-> pluginNames,
      polyfillPlugins |-> polyfillPlugins,
      plugins |->
        [i \in 1..Len(pluginNames) |->
           <<getPlugin(pluginNames[i]),
             PluginOptions(pluginNames[i], opts.spec, opts.loose,
                           opts.useBuiltIns)>>]
        \o polyfillPlugins,
      warnings |-> modulesPlugins.warnings
                   + (IF hasUglifyTarget THEN 1 ELSE 0)]

\* The preset's options after normalizeOptions, at their defaults, and an
\* api of a recent host without caller.
DefaultOpts ==
  [targets |-> [given |-> FALSE, platforms |-> <<>>, uglify |-> FALSE],
   configPath |-> "", browserslistEnv |-> "",
   ignoreBrowserslistConfig |-> FALSE, forceAllTransforms |-> FALSE,
   loose |-> FALSE, spec |-> FALSE, useBuiltIns |-> "false",
   corejs |-> [given |-> FALSE, major |-> 0, version |-> ""],
   proposals |-> FALSE, modules |-> "auto", include |-> <<>>,
   exclude |-> <<>>, shippedProposals |-> FALSE, bugfixes |-> FALSE,
   debug |-> FALSE]

Callers ==
  {[given |-> g, supportsStaticESM |-> b, supportsDynamicImport |-> b,
    supportsExportNamespaceFrom |-> b, supportsTopLevelAwait |-> b] :
     g \in BOOLEAN, b \in BOOLEAN}

DefaultApi ==
  [version |-> Version(7, 22, 0), targets |-> [chrome |-> 2],
   caller |-> [given |-> FALSE, supportsStaticESM |-> FALSE,
               supportsDynamicImport |-> FALSE,
               supportsExportNamespaceFrom |-> FALSE,
               supportsTopLevelAwait |-> FALSE]]

\* Calls of the preset: the options that decide the targets, the options
\* handed to the plugins, and the options that decide the selection.
PresetCalls ==
  {[fn |-> "preset",
    api |-> [DefaultApi EXCEPT !.version = v, !.targets = bt],
    opts |-> [DefaultOpts EXCEPT
                !.targets = ot, !.configPath = cp, !.browserslistEnv = env,
                !.ignoreBrowserslistConfig = ig, !.forceAllTransforms = f,
                !.useBuiltIns = "usage",
                !.corejs = [given |-> TRUE, major |-> 3,
                            version |-> "3.30.0"]]] :
     v \in {Version(7, 12, 0), Version(7, 13, 0)},
     bt \in {[chrome |-> 3], [node |-> 1]},
     ot \in {[given |-> FALSE, platforms |-> <<>>, uglify |-> FALSE],
             [given |-> TRUE, platforms |-> [chrome |-> 2], uglify |-> FALSE],
             [given |-> TRUE, platforms |-> <<>>, uglify |-> TRUE],
             [given |-> TRUE, platforms |-> [node |-> 3], uglify |-> TRUE]},
     cp \in {"", "./browserslist"}, env \in {"", "production"},
     ig \in BOOLEAN, f \in BOOLEAN}
  \cup
  {[fn |-> "preset",
    api |-> [DefaultApi EXCEPT !.caller = c],
    opts |-> [DefaultOpts EXCEPT
                !.loose = l, !.spec = sp, !.useBuiltIns = u, !.corejs = cj,
                !.modules = m, !.shippedProposals = sh,
                !.forceAllTransforms = f]] :
     c \in Callers, l \in BOOLEAN, sp \in BOOLEAN, u \in BuiltInsOptions,
     cj \in CoreJSVersions, m \in {"false", "auto", "umd", "commonjs"},
     sh \in BOOLEAN, f \in BOOLEAN}
  \cup
  {[fn |-> "preset",
    api |-> [DefaultApi EXCEPT !.version = v, !.targets = bt],
    opts |-> [DefaultOpts EXCEPT
                !.bugfixes = bf, !.shippedProposals = sh, !.include = inc,
                !.exclude = exc, !.loose = l, !.modules = m]] :
     v \in {Version(7, 11, 0), Version(7, 22, 0)}, bt \in TargetSets,
     bf \in BOOLEAN, sh \in BOOLEAN,
     inc \in {<<>>, <<<<"transform-regenerator">>, <<"es", "array", "push">>>>},
     exc \in {<<>>, <<<<"transform-parameters">>, <<"web", "timers">>>>},
     l \in BOOLEAN, m \in {"false", "auto"}}

\* The longest include or exclude list.
MaxEntries == 2

\* Entries of an include or exclude list, as lists of their dot-separated
\* segments: es.a, es6.a, es7.a, esnext.a, web.a, es (no dot), es. (nothing
\* after the dot), esm.a, .es.a and transform-x.
Entries ==
  {<<"es", "a">>, <<"es6", "a">>, <<"es7", "a">>, <<"esnext", "a">>,
   <<"web", "a">>, <<"es">>, <<"es", "">>, <<"esm", "a">>, <<"", "es", "a">>,
   <<"transform-x">>}

EntryLists == UNION {[1..n -> Entries] : n \in 0..MaxEntries}

\* The calls of the preset's functions, one call per behaviour.
InitPresetEnv ==
  /\ args \in
       PresetCalls
       \cup
       [fn : {"getPolyfillPlugins"},
        useBuiltIns : BuiltInsOptions,
        corejs : CoreJSVersions,
        polyfillTargets : TargetSets,
        include : {{}}, exclude : {{}, {"es.array.push"}},
        proposals : BOOLEAN, shippedProposals : {FALSE},
        regenerator : BOOLEAN, debug : BOOLEAN]
       \cup
       [fn : {"getModulesPluginNames"},
        modules : ModuleOptions,
        transformations :
          {moduleTransformations,
           Restrict(moduleTransformations, {"auto", "commonjs"})},
        shouldTransformESM : BOOLEAN,
        shouldTransformDynamicImport : BOOLEAN,
        shouldTransformExportNamespaceFrom : BOOLEAN,
        shouldParseTopLevelAwait : BOOLEAN]
       \cup
       [fn : {"transformIncludesAndExcludes"}, opts : EntryLists]
  /\ result = NoResult
  /\ IdleNotCall

CallGetModulesPluginNames ==
  /\ result = NoResult
  /\ args.fn = "getModulesPluginNames"
  /\ result' = <<getModulesPluginNames(args)>>
  /\ UNCHANGED <<args, notCallVars>>

CallGetPolyfillPlugins ==
  /\ result = NoResult
  /\ args.fn = "getPolyfillPlugins"
  /\ result' = <<getPolyfillPlugins(args)>>
  /\ UNCHANGED <<args, notCallVars>>

CallPresetEnv ==
  /\ result = NoResult
  /\ args.fn = "preset"
  /\ result' = <<presetEnv(args.api, args.opts)>>
  /\ UNCHANGED <<args, notCallVars>>

CallTransformIncludesAndExcludes ==
  /\ result = NoResult
  /\ args.fn = "transformIncludesAndExcludes"
  /\ result' = <<transformIncludesAndExcludes(args.opts)>>
  /\ UNCHANGED <<args, notCallVars>>

NextPresetEnv ==
  \/ CallGetModulesPluginNames
  \/ CallGetPolyfillPlugins
  \/ CallPresetEnv
  \/ CallTransformIncludesAndExcludes

SpecPresetEnv == InitPresetEnv /\ [][NextPresetEnv]_vars

\* C13: getModulesPluginNames selects transform-dynamic-import only when
\* modules names a known module format other than "umd" and both ES-module
\* and dynamic-import transformation are requested; whenever dynamic-import
\* transformation is requested for a module format that cannot take it (a
\* known format that is "umd" or is not transformed), only
\* syntax-dynamic-import is selected and one warning is logged, and the
\* function returns its list.
C13_DynamicImport ==
  (result # NoResult /\ args.fn = "getModulesPluginNames") =>
    LET names == Range(result[1].names)
        known == /\ args.modules # "false"
                 /\ args.modules \in DOMAIN args.transformations
        canTake == args.shouldTransformESM /\ args.modules # "umd"
    IN /\ "transform-dynamic-import" \in names =>
            /\ known /\ canTake
            /\ args.shouldTransformDynamicImport
       /\ (known /\ args.shouldTransformDynamicImport /\ ~canTake) =>
            /\ "syntax-dynamic-import" \in names
            /\ "transform-dynamic-import" \notin names
            /\ result[1].warnings = 1
       /\ "syntax-import-meta" \in names

\* For "umd" with both transformations requested the module transform is
\* selected, the dynamic-import syntax only, and the warning is logged.
C13_Witness ==
  /\ result # NoResult
  /\ args.fn = "getModulesPluginNames"
  /\ args.modules = "umd"
  /\ args.shouldTransformESM
  /\ args.shouldTransformDynamicImport
  /\ result[1].warnings = 1
  /\ result[1].names[1] = "transform-modules-umd"
  /\ result[1].names[2] = "syntax-dynamic-import"

\* The number of pairs of a plugin list whose plugin is one of ps.
CountPlugins(list, ps) == Cardinality({i \in 1..Len(list) : list[i][1] \in ps})

\* C14 as stated: getPolyfillPlugins returns an empty list when useBuiltIns
\* is false or no corejs version is given; when useBuiltIns is "usage" or
\* "entry" and a corejs version is given it returns exactly one core-js
\* injection plugin (the corejs2 plugin for major 2, the corejs3 plugin
\* otherwise) plus exactly one legacy babel-polyfill companion plugin, and
\* it also includes the regenerator polyfill plugin whenever
\* transform-regenerator was selected.
C14_Original ==
  (result # NoResult /\ args.fn = "getPolyfillPlugins") =>
    LET list == result[1]
    IN IF args.useBuiltIns = "false" \/ ~args.corejs.given THEN list = <<>>
       ELSE /\ CountPlugins(list, {"pluginCoreJS2", "pluginCoreJS3"}) = 1
            /\ CountPlugins(list, {IF args.corejs.major = 2
                                     THEN "pluginCoreJS2"
                                   ELSE "pluginCoreJS3"}) = 1
            /\ CountPlugins(list, {"legacyBabelPolyfillPlugin"}) = 1
            /\ args.regenerator =>
                 CountPlugins(list, {"pluginRegenerator"}) = 1

\* C14 amended: as stated, except that the regenerator polyfill plugin is
\* included exactly when useBuiltIns is "usage" and transform-regenerator
\* was selected; with "entry" it is never included: for major 2 the legacy
\* companion plugin receives the regenerator flag, and otherwise the
\* plugin that removes the regenerator entry import is added exactly when
\* transform-regenerator was not selected.
C14_PolyfillPlugins ==
  (result # NoResult /\ args.fn = "getPolyfillPlugins") =>
    LET list == result[1]
    IN IF args.useBuiltIns = "false" \/ ~args.corejs.given THEN list = <<>>
       ELSE /\ CountPlugins(list, {"pluginCoreJS2", "pluginCoreJS3"}) = 1
            /\ CountPlugins(list, {IF args.corejs.major = 2
                                     THEN "pluginCoreJS2"
                                   ELSE "pluginCoreJS3"}) = 1
            /\ CountPlugins(list, {"legacyBabelPolyfillPlugin"}) = 1
            /\ CountPlugins(list, {"pluginRegenerator"}) =
                 (IF args.useBuiltIns = "usage" /\ args.regenerator
                    THEN 1 ELSE 0)
            /\ (args.useBuiltIns = "entry" /\ args.corejs.major = 2) =>
                 list[1][2] = [regenerator |-> args.regenerator]
            /\ CountPlugins(list, {"removeRegeneratorEntryPlugin"}) =
                 (IF args.useBuiltIns = "entry" /\ args.corejs.major # 2
                       /\ ~args.regenerator
                    THEN 1 ELSE 0)

\* getPolyfillPlugins for "entry", core-js 3 and transform-regenerator
\* selected returned the core-js 3 plugin and the legacy companion only.
C14_Witness ==
  /\ result # NoResult
  /\ args.fn = "getPolyfillPlugins"
  /\ args.useBuiltIns = "entry"
  /\ args.corejs.major = 3
  /\ args.regenerator
  /\ Len(result[1]) = 2

\* The pairs the preset returns for its selected plugin names, with the
\* options `others` for the plugins without options of their own.
PluginPairs(pluginNames, others) ==
  [i \in 1..Len(pluginNames) |->
     <<getPlugin(pluginNames[i]),
       IF pluginNames[i] \in {"transform-class-properties",
                              "transform-private-methods",
                              "transform-private-property-in-object"}
         THEN [loose |->
                 IF args.opts.loose
                   THEN "#__internal__@babel/preset-env__prefer-true-but-false-is-ok-if-it-prevents-an-error"
                 ELSE "#__internal__@babel/preset-env__prefer-false-but-true-is-ok-if-it-prevents-an-error"]
       ELSE IF pluginNames[i] = "syntax-import-attributes"
         THEN [deprecatedAssertSyntax |-> TRUE]
       ELSE others>>]

\* C15 as stated: for every selected plugin name the env preset emits
\* exactly one [implementation, options] pair, in selection order and ahead
\* of all polyfill plugins: the three class plugins receive only a loose
\* option, the "prefer-true" sentinel when loose is true and the
\* "prefer-false" sentinel otherwise; syntax-import-attributes receives
\* { deprecatedAssertSyntax: true }; every other plugin receives the
\* preset's own spec, loose and useBuiltIns option values.
C15_Original ==
  (result # NoResult /\ args.fn = "preset") =>
    result[1].plugins =
      PluginPairs(result[1].pluginNames,
                  [spec |-> args.opts.spec, loose |-> args.opts.loose,
                   useBuiltIns |-> args.opts.useBuiltIns])
      \o result[1].polyfillPlugins

\* C15 amended: as stated, except that every other plugin receives the
\* preset's spec and loose option values and, as useBuiltIns, the boolean
\* that is true exactly when the preset's useBuiltIns is not false.
C15_PluginOptions ==
  (result # NoResult /\ args.fn = "preset") =>
    /\ result[1].plugins =
         PluginPairs(result[1].pluginNames,
                     [spec |-> args.opts.spec, loose |-> args.opts.loose,
                      useBuiltIns |-> IF args.opts.useBuiltIns = "false"
                                        THEN "false" ELSE "true"])
         \o result[1].polyfillPlugins
    /\ \A i, j \in 1..Len(result[1].pluginNames) :
         result[1].pluginNames[i] = result[1].pluginNames[j] => i = j

\* The preset ran with useBuiltIns "usage" and loose, and selected a class
\* plugin, syntax-import-attributes and an ordinary plugin.
C15_Witness ==
  /\ result # NoResult
  /\ args.fn = "preset"
  /\ args.opts.useBuiltIns = "usage"
  /\ args.opts.loose
  /\ {"transform-class-properties", "syntax-import-attributes",
      "transform-regenerator"} \subseteq Range(result[1].pluginNames)
  /\ result[1].polyfillPlugins # <<>>

\* C16: the env preset uses the globally resolved api.targets() unchanged
\* unless the host version is below 7.13.0 or one of the options targets,
\* configPath, browserslistEnv or ignoreBrowserslistConfig is given, in
\* which case it ignores api.targets() and re-resolves targets locally from
\* its own options; with forceAllTransforms the transform plugins are
\* selected against an empty target set while the polyfill plugins still
\* receive the resolved targets.
C16_TargetsResolution ==
  (result # NoResult /\ args.fn = "preset") =>
    LET o == args.opts
        r == result[1]
        local == \/ VLess(args.api.version, Version(7, 13, 0))
                 \/ o.targets.given
                 \/ o.configPath # ""
                 \/ o.browserslistEnv # ""
                 \/ o.ignoreBrowserslistConfig
    IN /\ ~local => r.targets = args.api.targets
       /\ local =>
            r.targets =
              IF DOMAIN o.targets.platforms # {} THEN o.targets.platforms
              ELSE IF o.ignoreBrowserslistConfig THEN <<>>
              ELSE browserslistConfig(o.configPath, o.browserslistEnv)
       /\ o.forceAllTransforms =>
            /\ r.transformTargets = <<>>
            /\ \A i \in 1..Len(r.polyfillPlugins) :
                 r.polyfillPlugins[i][1] \in {"pluginCoreJS2", "pluginCoreJS3"}
                   => r.polyfillPlugins[i][2].targets = r.targets

\* With only browserslistEnv given and forceAllTransforms, the targets were
\* resolved locally, differ from api.targets(), and reached the polyfill
\* plugin although the transforms were selected for no targets.
C16_Witness ==
  /\ result # NoResult
  /\ args.fn = "preset"
  /\ args.opts.forceAllTransforms
  /\ args.opts.browserslistEnv # ""
  /\ ~args.opts.targets.given
  /\ result[1].targets # args.api.targets
  /\ result[1].targets # <<>>
  /\ result[1].transformTargets = <<>>
  /\ result[1].polyfillPlugins # <<>>
  /\ result[1].polyfillPlugins[1][2].targets = result[1].targets

\* A target set with the version of platform p lowered to v.
LowerTarget(targets, p, v) ==
  IF p \in DOMAIN targets /\ v < targets[p] THEN [targets EXCEPT ![p] = v]
  ELSE targets

\* The plugin names the preset selects for the call of this behaviour with
\* the version of platform p lowered to v.
SelectedWhenLowered(p, v) ==
  presetEnv([args.api EXCEPT !.targets = LowerTarget(@, p, v)],
            [args.opts EXCEPT
               !.targets.platforms = LowerTarget(@, p, v)]).pluginNames

\* The transform plugins among plugin names: those that are not syntax
\* plugins.
TransformPlugins(pluginNames) ==
  Range(pluginNames) \
    {"syntax-dynamic-import", "syntax-export-namespace-from",
     "syntax-top-level-await", "syntax-import-meta",
     "syntax-import-attributes", "syntax-unicode-sets-regex"}

\* C17 as stated: for a fixed compatibility table and fixed options,
\* lowering the minimum version of any single target platform never removes
\* a transform plugin from the set the env preset selects.
C17_Original ==
  (result # NoResult /\ args.fn = "preset") =>
    \A p \in {"chrome", "node"}, v \in 1..MaxTargetVersion :
      TransformPlugins(result[1].pluginNames)
        \subseteq TransformPlugins(SelectedWhenLowered(p, v))

\* C17 amended: lowering the minimum version of any single target platform
\* never makes a plugin that was required not required, and never removes a
\* transform plugin from the set the env preset selects other than one the
\* overlap table lists under a plugin that is selected for the lowered
\* targets.
C17_MonotonicSelection ==
  (result # NoResult /\ args.fn = "preset") =>
    \A p \in {"chrome", "node"}, v \in 1..MaxTargetVersion :
      LET after == TransformPlugins(SelectedWhenLowered(p, v))
          table == getPluginList(args.opts.shippedProposals,
                                 args.opts.bugfixes)
      IN /\ \A n \in TransformPlugins(result[1].pluginNames) :
              \/ n \in after
              \/ \E m \in after \cap DOMAIN overlappingPlugins :
                   n \in overlappingPlugins[m]
         /\ \A i \in 1..Len(table) :
              isPluginRequired(args.api.targets, table[i].support)
                => isPluginRequired(LowerTarget(args.api.targets, p, v),
                                    table[i].support)

\* With bugfixes, the preset selected the narrower parameters plugin for
\* chrome 2; for chrome 1 it selects transform-parameters instead.
C17_Witness ==
  /\ result # NoResult
  /\ args.fn = "preset"
  /\ args.opts.bugfixes
  /\ args.api.targets = [chrome |-> 2]
  /\ "bugfix/transform-edge-default-parameters" \in Range(result[1].pluginNames)
  /\ "transform-parameters" \notin Range(result[1].pluginNames)
  /\ "transform-parameters" \in Range(SelectedWhenLowered("chrome", 1))
  /\ "bugfix/transform-edge-default-parameters"
       \notin Range(SelectedWhenLowered("chrome", 1))

(***************************************************************************)
(*              prettifyVersion / prettifyTargets (targets helper)         *)
(***************************************************************************)

\* Largest major, minor or patch number of a version string.
MaxPart == 2

\* A target value: a boolean, or a string of dot-separated numbers, kept as
\* the list of the numbers ("1.0.2" is <<1, 0, 2>>, "1" is <<1>>).
TargetValues ==
  [kind : {"boolean"}, b : BOOLEAN, parts : {<<>>}]
    \cup [kind : {"string"}, b : {FALSE},
          parts : [1..3 -> 0..MaxPart]]

prettifyVersionMutant(version) ==
  IF version.kind # "string" THEN version
  ELSE LET major == version.parts[1]
           minor == version.parts[2]
           patch == version.parts[3]
       IN [version EXCEPT
             !.parts = <<major>>
                       \o (IF minor # 0 THEN <<minor>> ELSE <<>>)
                       \o (IF patch # 0 THEN <<patch>> ELSE <<>>)]

\* prettifyVersion: major, then minor unless minor and patch are 0, then
\* patch unless it is 0, joined by dots; a value that is no string as it is.
prettifyVersion(version) ==
  IF version.kind # "string" THEN version
  ELSE LET major == version.parts[1]
           minor == version.parts[2]
           patch == version.parts[3]
       IN [version EXCEPT
             !.parts = <<major>>
                       \o (IF minor # 0 \/ patch # 0 THEN <<minor>> ELSE <<>>)
                       \o (IF patch # 0 THEN <<patch>> ELSE <<>>)]

\* prettifyTargets: the table with every value prettified.
prettifyTargets(targets) ==
  [target \in DOMAIN targets |-> prettifyVersion(targets[target])]

InitPretty ==
  /\ args \in
       [fn : {"prettifyVersion"}, version : TargetValues]
       \cup
       [fn : {"prettifyTargets"},
        targets : UNION {[S -> TargetValues] : S \in SUBSET {"chrome", "node"}}]
  /\ result = NoResult
  /\ IdleNotCall

CallPrettifyVersion ==
  /\ result = NoResult
  /\ args.fn = "prettifyVersion"
  /\ result' = <<prettifyVersion(args.version)>>
  /\ UNCHANGED <<args, notCallVars>>

CallPrettifyTargets ==
  /\ result = NoResult
  /\ args.fn = "prettifyTargets"
  /\ result' = <<prettifyTargets(args.targets)>>
  /\ UNCHANGED <<args, notCallVars>>

NextPretty == CallPrettifyVersion \/ CallPrettifyTargets

SpecPretty == InitPretty /\ [][NextPretty]_vars

\* The shortest form of a value that keeps its non-zero parts.
IsShortestForm(value, pretty) ==
  IF value.kind = "boolean" THEN pretty = value
  ELSE LET major == value.parts[1]
           minor == value.parts[2]
           patch == value.parts[3]
       IN /\ pretty.kind = "string"
          /\ (minor = 0 /\ patch = 0) => pretty.parts = <<major>>
          /\ (minor # 0 /\ patch = 0) => pretty.parts = <<major, minor>>
          /\ patch # 0 => pretty.parts = value.parts

\* C18: prettifyVersion maps a version string major.minor.patch to the
\* shortest form that keeps its non-zero parts ("major" when minor and patch
\* are 0, "major.minor" when only patch is 0, the full string when patch is
\* not 0) and returns a boolean input unchanged; prettifyTargets applies
\* this to the value of every platform and returns exactly the same set of
\* platform keys (an empty table gives an empty table).
C18_Prettify ==
  result # NoResult =>
    /\ args.fn = "prettifyVersion" => IsShortestForm(args.version, result[1])
    /\ args.fn = "prettifyTargets" =>
         /\ DOMAIN result[1] = DOMAIN args.targets
         /\ \A target \in DOMAIN args.targets :
              IsShortestForm(args.targets[target], result[1][target])

\* prettifyTargets({chrome: "2.0.0", node: "0.1.0"}) gave
\* {chrome: "2", node: "0.1"}.
C18_Witness ==
  /\ result # NoResult
  /\ args.fn = "prettifyTargets"
  /\ DOMAIN args.targets = {"chrome", "node"}
  /\ args.targets["chrome"].parts = <<2, 0, 0>>
  /\ args.targets["node"].parts = <<0, 1, 0>>
  /\ result[1]["chrome"].parts = <<2>>
  /\ result[1]["node"].parts = <<0, 1>>

(***************************************************************************)
(*                 The function-name helper (nameFunction)                 *)
(***************************************************************************)

\* The nodes a name is taken from: identifiers, literals, and a node that
\* is neither; NoId where there is none.
NoId == [type |-> "none", value |-> ""]
IdNodes ==
  {[type |-> "Identifier", value |-> "f"],
   [type |-> "Identifier", value |-> "\\uD835\\uDC53"],
   [type |-> "StringLiteral", value |-> "a b"],
   [type |-> "NullLiteral", value |-> ""],
   [type |-> "MemberExpression", value |-> ""]}

isLiteral(id) == id.type \in {"StringLiteral", "NumericLiteral", "NullLiteral"}

getNameFromLiteralId(id) ==
  IF id.type = "NullLiteral" THEN "null" ELSE id.value

\* /[\uD800-\uDFFF]/.test(name)
HasSurrogate(name) == name \in {"\\uD835\\uDC53"}

\* toBindingIdentifierName: the name made a valid binding identifier.
toBindingIdentifierName(name) ==
  IF name = "a b" THEN "aB"
  ELSE IF name = "null" THEN "_null"
  ELSE name

\* getFunctionArity: the parameters before the first default or rest one.
getFunctionArity(node) ==
  LET special == {i \in 1..Len(node.params) :
                    node.params[i] \in {"AssignmentPattern", "RestElement"}}
  IN IF special = {} THEN Len(node.params)
     ELSE (CHOOSE i \in special : \A j \in special : i <= j) - 1

\* The scope of the node, as far as the name is concerned: own is the kind
\* of the binding of the name in the node's own scope, outer the binding
\* of the name visible from the parent scope, global whether the name is a
\* known global, refers whether the node's body holds an identifier of that
\* name which resolves to what the name means outside.
Scopes ==
  [own : {"none", "param", "local"}, outer : {"none", "constant", "mutable"},
   global : BOOLEAN, refers : BOOLEAN]

\* visit: state.selfReference
visit(node, name, scope) ==
  IF scope.own # "none" THEN scope.own = "param"
  ELSE IF scope.outer # "none" \/ scope.global THEN scope.refers
  ELSE FALSE

\* What a call gives: what it returns ("void", "node" or "iife"), node.id
\* afterwards, whether the binding was renamed in the scope, the name
\* added to the program's references, and the wrapper returned.
Outcome(returns, id, renamed, reference, wrapper) ==
  [returns |-> returns, id |-> id, renamed |-> renamed,
   reference |-> reference, wrapper |-> wrapper]

NoWrapper == [generator |-> FALSE, arity |-> 0]

\* wrap, and the `|| node` of its caller.
wrap(selfReference, method, name, scope) ==
  IF selfReference
       /\ ~((scope.own # "none" \/ scope.outer # "none") /\ ~scope.global)
    THEN IF method.type # "FunctionExpression"
           THEN Outcome("node", method.id, FALSE, "", NoWrapper)
         ELSE Outcome("iife", method.id, FALSE, "",
                      [generator |-> method.generator,
                       arity |-> getFunctionArity(method)])
  ELSE Outcome("node", name, selfReference, name, NoWrapper)

\* The helper: node, parent, scope and fallback id, localBinding and
\* supportUnicodeId.
nameFunction(node, parent, scope, fallbackId, localBinding, supportUnicodeId) ==
  LET void == Outcome("void", node.id, FALSE, "", NoWrapper)
      keyed == /\ \/ parent.type = "ObjectProperty"
                  \/ parent.type = "ObjectMethod" /\ parent.kind = "method"
               /\ ~parent.computed \/ isLiteral(parent.target)
      declared == ~keyed /\ parent.type = "VariableDeclarator"
      assigned == /\ ~keyed /\ ~declared
                  /\ parent.type = "AssignmentExpression"
                  /\ parent.operator = "="
      id == IF keyed \/ declared \/ assigned THEN parent.target
            ELSE fallbackId
      inferred == IF isLiteral(id) THEN getNameFromLiteralId(id)
                  ELSE id.value
      name == toBindingIdentifierName(inferred)
  IN IF node.id # "" THEN void
     ELSE IF declared /\ id.type = "Identifier" /\ ~localBinding
               /\ scope.outer = "constant" /\ scope.own = "none"
       THEN Outcome("void", id.value, FALSE, "", NoWrapper)
     ELSE IF id = NoId THEN void
     ELSE IF ~isLiteral(id) /\ id.type # "Identifier" THEN void
     ELSE IF ~supportUnicodeId /\ node.type = "FunctionExpression"
               /\ HasSurrogate(inferred)
       THEN void
     ELSE wrap(visit(node, name, scope), node, name, scope)

\* The parents of the node.
Parents ==
  [type : {"ObjectProperty", "VariableDeclarator"}, kind : {""},
   computed : BOOLEAN, operator : {""}, target : IdNodes]
    \cup [type : {"ObjectMethod"}, kind : {"method", "get"},
          computed : {FALSE}, operator : {""},
          target : {[type |-> "Identifier", value |-> "f"]}]
    \cup [type : {"AssignmentExpression"}, kind : {""}, computed : {FALSE},
          operator : {"=", "+="},
          target : {[type |-> "Identifier", value |-> "f"],
                    [type |-> "MemberExpression", value |-> ""]}]
    \cup [type : {"CallExpression"}, kind : {""}, computed : {FALSE},
          operator : {""}, target : {NoId}]

InitNameFunction ==
  /\ args \in
       [node : [type : {"FunctionExpression", "ClassExpression"},
                id : {"", "g"}, generator : BOOLEAN,
                params : {<<"Identifier", "RestElement">>}],
        parent : Parents, scope : Scopes,
        id : {NoId, [type |-> "StringLiteral", value |-> "a b"]},
        localBinding : BOOLEAN, supportUnicodeId : BOOLEAN]
  /\ result = NoResult
  /\ IdleNotCall

CallNameFunction ==
  /\ result = NoResult
  /\ result' = <<nameFunction(args.node, args.parent, args.scope, args.id,
                              args.localBinding, args.supportUnicodeId)>>
  /\ UNCHANGED <<args, notCallVars>>

NextNameFunction == CallNameFunction

SpecNameFunction == InitNameFunction /\ [][NextNameFunction]_vars

\* The node the call of this behaviour takes the name from.
NamingSource ==
  LET parent == args.parent
  IN IF \/ /\ parent.type \in {"ObjectProperty", "ObjectMethod"}
           /\ parent.kind \in {"", "method"}
           /\ ~parent.computed \/ isLiteral(parent.target)
        \/ parent.type = "VariableDeclarator"
        \/ parent.type = "AssignmentExpression" /\ parent.operator = "="
       THEN parent.target
     ELSE args.id

\* C19: the function-name helper returns nothing when the node already has
\* an id, when no name can be inferred, or when the inferred name has
\* non-BMP characters the target does not support; it returns a wrapping
\* call expression (an IIFE) when the function contains a binding that
\* shadows the inferred name (as in `let f = function (f) {}`); in every
\* other case it returns the node with the inferred id set.
C19_FunctionName ==
  result # NoResult =>
    LET r == result[1]
        from == NamingSource
        inferable == from.type \in {"Identifier", "StringLiteral",
                                      "NullLiteral"}
        inferred == IF from.type = "NullLiteral" THEN "null"
                    ELSE from.value
    IN IF \/ args.node.id # ""
          \/ ~inferable
          \/ ~args.supportUnicodeId /\ HasSurrogate(inferred)
         THEN r.returns = "void"
       ELSE IF args.scope.own # "none" THEN r.returns = "iife"
       ELSE r.returns = "node" /\ r.id = toBindingIdentifierName(inferred)

(***************************************************************************)
(* Class and accessor decorators: the order in which decorator             *)
(* expressions are evaluated, decorators are applied and initializers run  *)
(* (babel-plugin-proposal-destructuring-private/test/plugin-ordering.js).  *)
(*                                                                         *)
(* A class is [decorators, members]: the number of class decorators and    *)
(* the decorated accessors [static, private, decorators] in source order.  *)
(* Decorator d of a target is the d-th one written above it, target 0 is   *)
(* the class itself and target i its i-th member.  Every push of the       *)
(* fixture is an event [kind, target, decorator, instance] of the log:     *)
(*   "evaluate" : push(a), the decorator expression is evaluated           *)
(*   "apply"    : push(b), the decorator function is called                *)
(*   "callback" : push(c), the function given to addInitializer runs       *)
(*   "init"     : push(d), the init function the decorator returned runs   *)
(***************************************************************************)
MaxDecorators == 2
MaxClassMembers == 2
MaxInstances == 2

Accessor(static, private, decorators) == [static |-> static, private |-> private, decorators |-> decorators]

\* class A of the fixture: accessor a; static accessor b; static accessor #c;
\* accessor #d; two decorators on each and two on the class
FixtureClass == [decorators |-> 2, members |-> <<Accessor(FALSE, FALSE, 2), Accessor(TRUE, FALSE, 2), Accessor(TRUE, TRUE, 2), Accessor(FALSE, TRUE, 2)>>]

\* the arguments (a, b, c, d) of the decorator calls of the fixture
FixtureNumbers == [t \in 0..4 |-> CASE t = 0 -> <<<<0, 19, 29>>, <<1, 18, 28>>>> [] t = 1 -> <<<<2, 15, 31, 34>>, <<3, 14, 30, 35>>>> [] t = 2 -> <<<<4, 11, 21, 24>>, <<5, 10, 20, 25>>>> [] t = 3 -> <<<<6, 13, 23, 26>>, <<7, 12, 22, 27>>>> [] t = 4 -> <<<<8, 17, 33, 36>>, <<9, 16, 32, 37>>>>]

\* the number the fixture pushes at an event
pushed(event) == FixtureNumbers[event.target][event.decorator][CASE event.kind = "evaluate" -> 1 [] event.kind = "apply" -> 2 [] event.kind = "callback" -> 3 [] event.kind = "init" -> 4]

Classes == {FixtureClass} \cup {[decorators |-> n, members |-> m] : n \in 0..MaxDecorators, m \in UNION {[1..k -> {Accessor(s, p, d) : s \in BOOLEAN, p \in BOOLEAN, d \in 1..MaxDecorators}] : k \in 1..MaxClassMembers}}

DecoratorsOf(class, target) == IF target = 0 THEN class.decorators ELSE class.members[target].decorators

Targets(class, static) == SelectSeq([i \in 1..Len(class.members) |-> i], LAMBDA i : class.members[i].static = static)

\* the events of one kind of one target: expressions and init functions
\* from the first decorator written to the last, applications and
\* addInitializer callbacks from the last decorator written to the first
EventsOf(class, target, kind, instance) == [j \in 1..DecoratorsOf(class, target) |-> [kind |-> kind, target |-> target, decorator |-> IF kind \in {"evaluate", "init"} THEN j ELSE DecoratorsOf(class, target) + 1 - j, instance |-> instance]]

RECURSIVE FlatEvents(_, _, _, _)
FlatEvents(class, targets, kind, instance) == IF targets = <<>> THEN <<>> ELSE EventsOf(class, Head(targets), kind, instance) \o FlatEvents(class, Tail(targets), kind, instance)

DefinitionScheduleMutant(class) == FlatEvents(class, <<0>>, "evaluate", 0) \o FlatEvents(class, <<0>>, "apply", 0) \o FlatEvents(class, [i \in 1..Len(class.members) |-> i], "evaluate", 0) \o FlatEvents(class, Targets(class, TRUE) \o Targets(class, FALSE), "apply", 0) \o FlatEvents(class, Targets(class, TRUE), "callback", 0) \o FlatEvents(class, Targets(class, TRUE), "init", 0) \o FlatEvents(class, <<0>>, "callback", 0)

\* what evaluating the class definition pushes, in order
DefinitionSchedule(class) == FlatEvents(class, <<0>> \o [i \in 1..Len(class.members) |-> i], "evaluate", 0) \o FlatEvents(class, Targets(class, TRUE) \o Targets(class, FALSE) \o <<0>>, "apply", 0) \o FlatEvents(class, Targets(class, TRUE), "callback", 0) \o FlatEvents(class, Targets(class, TRUE), "init", 0) \o FlatEvents(class, <<0>>, "callback", 0)

\* what constructing the instance-th instance pushes, in order
ConstructionSchedule(class, instance) == FlatEvents(class, Targets(class, FALSE), "callback", instance) \o FlatEvents(class, Targets(class, FALSE), "init", instance)

InitDecorators ==
  /\ IdleNotEvaluation
  /\ \E class \in Classes :
       evaluation = [class |-> class, pending |-> DefinitionSchedule(class), log |-> <<>>, instances |-> 0]

\* the next push of the run, when it is of the given kind
Push(kind) ==
  /\ evaluation.pending # <<>>
  /\ Head(evaluation.pending).kind = kind
  /\ evaluation' = [evaluation EXCEPT !.pending = Tail(@), !.log = Append(@, Head(evaluation.pending))]
  /\ UNCHANGED notEvaluationVars

EvaluateDecorator == Push("evaluate")

ApplyDecorator == Push("apply")

RunAddedInitializer == Push("callback")

RunInit == Push("init")

\* new A(), once the class is defined
Construct ==
  /\ evaluation.pending = <<>>
  /\ evaluation.instances < MaxInstances
  /\ evaluation' = [evaluation EXCEPT !.instances = @ + 1, !.pending = ConstructionSchedule(evaluation.class, evaluation.instances + 1)]
  /\ UNCHANGED notEvaluationVars

NextDecorators == EvaluateDecorator \/ ApplyDecorator \/ RunAddedInitializer \/ RunInit \/ Construct

SpecDecorators == InitDecorators /\ [][NextDecorators]_vars

\* the position of a decorator in the source text of the class
SourcePosition(event) == event.target * (MaxDecorators + 1) + event.decorator

\* the place in the log of the application of a decorator, 0 before it
AppliedAt(log, target, decorator) == IF \E i \in 1..Len(log) : log[i].kind = "apply" /\ log[i].target = target /\ log[i].decorator = decorator THEN CHOOSE i \in 1..Len(log) : log[i].kind = "apply" /\ log[i].target = target /\ log[i].decorator = decorator ELSE 0

IsStaticTarget(class, target) == target # 0 /\ class.members[target].static

IsInstanceTarget(class, target) == target # 0 /\ ~class.members[target].static

AllDecorators(class) == {<<t, d>> \in (0..Len(class.members)) \X (1..MaxDecorators) : d <= DecoratorsOf(class, t)}

ClassDefined == evaluation.instances > 0 \/ evaluation.pending = <<>>

\* C20: every decorator expression is evaluated, in source order, before
\* any decorator is applied; a callback given to addInitializer runs only
\* after every decorator of the class has been applied, and those of one
\* member (or of the class) run in the order in which its decorators were
\* applied; the initializers of static members have all run once when the
\* class is defined, those of instance members run only while an instance
\* is constructed, once for each instance; and class A of the fixture
\* pushes 0, 1, 2, ... in this order.
C20_DecoratorOrdering ==
    LET class == evaluation.class
        log == evaluation.log
        Places == 1..Len(log)
        Initializer(i) == log[i].kind \in {"callback", "init"}
    IN /\ \A i, j \in Places :
            i < j /\ log[j].kind = "evaluate" =>
              log[i].kind = "evaluate" /\ SourcePosition(log[i]) < SourcePosition(log[j])
       /\ \A i \in Places :
            log[i].kind = "apply" =>
              \A td \in AllDecorators(class) :
                \E k \in 1..(i - 1) : log[k].kind = "evaluate" /\ log[k].target = td[1] /\ log[k].decorator = td[2]
       /\ \A i \in Places :
            log[i].kind = "callback" =>
              \A td \in AllDecorators(class) :
                AppliedAt(log, td[1], td[2]) \in 1..(i - 1)
       /\ \A i, j \in Places :
            (/\ i < j
             /\ log[i].kind = "callback" /\ log[j].kind = "callback"
             /\ log[i].target = log[j].target /\ log[i].instance = log[j].instance) =>
              AppliedAt(log, log[i].target, log[i].decorator) < AppliedAt(log, log[j].target, log[j].decorator)
       /\ \A i \in Places :
            Initializer(i) =>
              /\ IsInstanceTarget(class, log[i].target) <=> log[i].instance > 0
              /\ log[i].instance <= evaluation.instances
       /\ ClassDefined =>
            \A td \in AllDecorators(class) :
              ~IsInstanceTarget(class, td[1]) =>
                /\ Cardinality({i \in Places : log[i].kind = "callback" /\ log[i].target = td[1] /\ log[i].decorator = td[2]}) = 1
                /\ IsStaticTarget(class, td[1]) =>
                     Cardinality({i \in Places : log[i].kind = "init" /\ log[i].target = td[1] /\ log[i].decorator = td[2]}) = 1
       /\ (evaluation.instances > 0 /\ evaluation.pending = <<>>) =>
            \A td \in AllDecorators(class) :
              IsInstanceTarget(class, td[1]) =>
                \A kind \in {"callback", "init"} :
                  Cardinality({i \in Places : log[i].kind = kind /\ log[i].target = td[1] /\ log[i].decorator = td[2]}) = evaluation.instances
       /\ class = FixtureClass =>
            \A i \in Places : log[i].instance <= 1 => pushed(log[i]) = i - 1

\* class A of the fixture is defined and one instance of it is constructed:
\* all 38 pushes have happened
C20_Witness ==
  /\ evaluation.class = FixtureClass
  /\ evaluation.instances = 1
  /\ evaluation.pending = <<>>
  /\ Len(evaluation.log) = 38

(***************************************************************************)
(*               remove(): the order of its steps and hooks                *)
(***************************************************************************)

\* The steps of the last call when it was a remove() that did not throw.
StepsOfRemove(noScope, hookCalls, handled) == <<"assert", "resync">> \o (IF noScope THEN <<>> ELSE <<"scope">>) \o [i \in 1..hookCalls |-> "hook"] \o (IF handled THEN <<"mark">> ELSE <<"share", "detach", "mark">>)

\* C21: a remove() of a path that is not removed takes its steps in the
\* order assert, resync, scope (left out exactly when noScope is set, and
\* then no binding is removed), hooks, and then share and detach when no
\* hook handled the removal and neither of them when one did; on both routes
\* the last step is the mark: the path is removed and should-skip, its node
\* is null and no entry of the path cache is left for the node.
C21_StepOrder ==
  [][\A p \in PathIds :
       (lastCall'.path = p /\ ~paths[p].removed) =>
         LET steps == lastCall'.steps
             handled == \E i \in 1..Len(lastCall'.hooks) : lastCall'.hooks[i].returned
             noScope == \A i \in 1..Len(steps) : steps[i] # "scope"
             node == paths[p].node
         IN /\ lastCall'.outcome = "ok"
            /\ steps = StepsOfRemove(noScope, Len(lastCall'.hooks), handled)
            /\ noScope => bindings' = bindings
            /\ ~noScope => bindings' = bindings \ getBindingIdentifiers(node)
            /\ handled => /\ comments' = comments
                          /\ container' = container /\ slot' = slot
            /\ ~handled => /\ \A n \in Nodes : comments[n].leading \subseteq comments'[n].leading /\ comments[n].trailing \subseteq comments'[n].trailing
                           /\ IF paths[p].inList
                                THEN container' = SelectSeq(container, LAMBDA n : n # node)
                                ELSE slot' = Null
            /\ paths'[p].removed /\ paths'[p].shouldSkip /\ paths'[p].node = Null
            /\ \A e \in pathCache' : e[1] # node
            /\ pathCache' \subseteq pathCache]_vars

\* Both routes were taken: the last remove() was handled by a hook with scope
\* updates on, after a statement had been detached from the container.
C21_Witness ==
  /\ lastCall.outcome = "ok"
  /\ lastCall.steps = <<"assert", "resync", "scope", "hook", "mark">>
  /\ Len(container) = NumStmts - 1
  /\ paths[lastCall.path].removed /\ paths[lastCall.path].shouldSkip
  /\ At(container, 0) = lastCall.path

\* C22: the hooks are called in list order with the path; a hook is called
\* only if all hooks before it returned falsy; when one returns truthy the
\* comments, the container and the slot are left alone, and the path is
\* marked removed all the same; when all of them return falsy every hook was
\* called and the generic detach runs exactly once.
C22_RemovalHooks ==
  [][\A p \in PathIds :
       (lastCall'.path = p /\ ~paths[p].removed) =>
         LET calls == lastCall'.hooks
             steps == lastCall'.steps
             handled == \E i \in 1..Len(calls) : calls[i].returned
             detaches == Cardinality({i \in 1..Len(steps) : steps[i] = "detach"})
             shares == Cardinality({i \in 1..Len(steps) : steps[i] = "share"})
         IN /\ Len(calls) <= NumHooks
            /\ \A i \in 1..Len(calls) :
                 /\ calls[i].fn = i /\ calls[i].path = p
                 /\ \A j \in 1..(i - 1) : ~calls[j].returned
            /\ Cardinality({i \in 1..Len(steps) : steps[i] = "hook"}) = Len(calls)
            /\ handled =>
                 /\ calls[Len(calls)].returned
                 /\ detaches = 0 /\ shares = 0
                 /\ comments' = comments /\ container' = container /\ slot' = slot
                 /\ \A q \in PathIds \ {p} : paths'[q] = paths[q]
            /\ ~handled =>
                 /\ Len(calls) = NumHooks
                 /\ detaches = 1 /\ shares = 1
                 /\ IF paths[p].inList
                      THEN Len(container') = Len(container) - 1
                      ELSE slot' = Null
            /\ paths'[p].removed]_vars

\* The first of two hooks handled the removal of a path the container still
\* holds: the second hook was not called.
C22_Witness ==
  /\ lastCall.outcome = "ok"
  /\ Len(lastCall.hooks) = 1 /\ NumHooks > 1
  /\ lastCall.hooks[1].returned
  /\ lastCall.path \in ListNodes
  /\ \E i \in 1..Len(container) : container[i] = lastCall.path
  /\ paths[lastCall.path].removed

(***************************************************************************)
(*            Printer: the ends-with-integer flag (number, token)          *)
(***************************************************************************)

Space(force) ==
  /\ InPrintMethod
  /\ printer' = space(printer, force)
  /\ lastPrint' = MethodCall("space", <<>>)
  /\ budget' = budget - 1
  /\ UNCHANGED <<frames, notPrinterVars>>

Newline(i, force) ==
  /\ InPrintMethod
  /\ printer' = newline(printer, i, force)
  /\ lastPrint' = MethodCall("newline", <<>>)
  /\ budget' = budget - 1
  /\ UNCHANGED <<frames, notPrinterVars>>

\* Numeric literals: integers, with a numeric separator, with a fraction,
\* with a trailing dot, with a prefix and with an exponent.
NextInteger ==
  \/ /\ frames = <<>>
     /\ \E inner \in {<<>>, <<1>>} :
          PrintNode(Node("Program", 1, 1, <<>>, inner, <<>>, FALSE),
                    FALSE, FALSE, 0)
  \/ Word(<<"a">>, FALSE)
  \/ \E str \in {<<"1">>, <<"1", "_", "0">>, <<"1", ".", "5">>, <<"1", ".", "0">>, <<"1", ".">>, <<"0", "x", "1">>, <<"1", "e", "3">>} : Number(str)
  \/ \E str \in {<<".">>, <<"+">>} : Token(str)
  \/ TokenChar(".")
  \/ \E force \in BOOLEAN : Space(force)
  \/ \E force \in BOOLEAN : Newline(1, force)

SpecInteger == InitWrites /\ [][NextInteger]_vars

\* The text of a decimal integer literal: digits, with numeric separators
\* between them or not; no dot, no exponent, no prefix.
BareInteger(str) ==
  /\ str # <<>>
  /\ \A i \in 1..Len(str) : str[i] \in {"0", "1", "2", "3", "4", "5", "6", "7", "8", "9", "_"}
  /\ str[1] # "_" /\ Last(str) # "_"

\* C23: after a call that wrote something the ends-with-integer flag is
\* set exactly when the call was number(str) with str a bare integer, and a
\* call that wrote nothing leaves it alone; the flag set implies the
\* ends-with-word flag set; and token or tokenChar writes a forced space
\* right before a `.` exactly when the flag is set at that moment (stated
\* for the calls that print no inner comment first).
C23_EndsWithInteger ==
  [][LET call == lastPrint'.call
         wrote == printer'.buf # printer.buf
         new == SubSeq(printer'.buf, Len(printer.buf) + 1, Len(printer'.buf))
         noComment == \A i \in 1..Len(new) : new[i].k # "comment"
     IN /\ wrote => (printer'.endsWithInteger <=> (call.method = "number" /\ BareInteger(call.str)))
        /\ ~wrote => printer'.endsWithInteger = printer.endsWithInteger
        /\ printer'.endsWithInteger => printer'.endsWithWord
        /\ (call.method \in {"token", "tokenChar"} /\ call.str[1] = ".") =>
             /\ Last(new).s = call.str
             /\ noComment =>
                  new = (IF printer.endsWithInteger THEN <<[k |-> "space", s |-> <<" ">>]>> ELSE <<>>) \o <<[k |-> "token", s |-> call.str]>>]_vars

(***************************************************************************)
(*        Printer: printTerminatorless and the parenthesis latch           *)
(***************************************************************************)

PrintTerminatorless(node, isLabel) ==
  LET Q == printTerminatorless(printer, isLabel)
  IN PrintFrom("printTerminatorless", IF isLabel THEN Null ELSE Q.parenPushNewlineState, FALSE, Q, node, FALSE, FALSE, 0)

\* The operands: an expression with a #__PURE__ comment before it, one with
\* a block comment before it and a line comment after it, and one without
\* comments or location.
TerminatorlessNodes ==
  {Node("Identifier", 1, 1, <<5>>, <<>>, <<>>, FALSE),
   Node("Identifier", 2, 2, <<1>>, <<>>, <<2>>, FALSE),
   Node("Identifier", 0, 0, <<>>, <<>>, <<>>, FALSE)}

InitTerminatorless ==
  /\ printer \in
       {NewPrinter(Format(compact, FALSE, retainLines, FALSE, {})) :
          compact \in BOOLEAN, retainLines \in BOOLEAN}
  /\ frames = <<>>
  /\ budget = MaxCalls
  /\ lastPrint = NoPrint
  /\ IdleNotPrinter

NextTerminatorless ==
  \/ /\ frames = <<>>
     /\ PrintNode(Node("ExpressionStatement", 1, 1, <<>>, <<>>, <<>>, FALSE), FALSE, FALSE, 0)
  \/ /\ InPrintMethod
     /\ \E node \in TerminatorlessNodes, isLabel \in BOOLEAN : PrintTerminatorless(node, isLabel)
  \/ PrintReturn
  \/ Word(<<"a">>, FALSE)
  \/ Token(<<"/">>)
  \/ \E force \in BOOLEAN : Space(force)
  \/ Newline(1, TRUE)

SpecTerminatorless == InitTerminatorless /\ [][NextTerminatorless]_vars

\* The pieces one step writes: what follows the part of the output the
\* step keeps (a line feed drops the blanks queued before it).
Written ==
  LET kept == CHOOSE n \in 0..Min(Len(printer.buf), Len(printer'.buf)) :
                /\ SubSeq(printer.buf, 1, n) = SubSeq(printer'.buf, 1, n)
                /\ \A m \in (n + 1)..Min(Len(printer.buf), Len(printer'.buf)) :
                     SubSeq(printer.buf, 1, m) # SubSeq(printer'.buf, 1, m)
  IN SubSeq(printer'.buf, kept + 1, Len(printer'.buf))

\* The pieces of one kind of text in the output.
CountPieces(buf, str) == Cardinality({i \in 1..Len(buf) : buf[i].k = "token" /\ buf[i].s = str})

IsBlank(p) == p.k \in {"space", "indent"}

IsPureComment(p) == p.k = "comment" /\ \E i \in 1..Len(p.s) : p.s[i] \in {"#__PURE__", "@__PURE__"}

\* The printTerminatorless calls that wait for their operand to return and
\* whose opening parenthesis is written.
OpenTerminators == {i \in 1..Len(frames) : /\ frames[i].caller = "printTerminatorless"
                                           /\ frames[i].terminator # Null
                                           /\ printer.terminators[frames[i].terminator].printed}

\* The latch and the output of one step: t is the terminatorState the step
\* starts with (the new one for a printTerminatorless call), new the pieces
\* the step writes.
LatchStep ==
  LET arming == lastPrint'.call.method = "printTerminatorless" /\ lastPrint'.outcome = "entered" /\ Last(frames').terminator # Null
      t == IF arming THEN Last(frames').terminator ELSE printer.parenPushNewlineState
      new == Written
      significant == {i \in 1..Len(new) : ~IsBlank(new[i]) /\ ~IsPureComment(new[i])}
      first == CHOOSE i \in significant : \A j \in significant : i <= j
  IN t # Null =>
       IF significant = {}
       THEN /\ printer'.parenPushNewlineState = t
            /\ ~printer'.terminators[t].printed
       ELSE /\ printer'.parenPushNewlineState # t
            /\ new[first].k \in {"word", "token", "semicolon"}
            /\ printer'.terminators[t].printed <=>
                 /\ new[first] = [k |-> "token", s |-> <<"(">>]
                 /\ first < Len(new)
                 /\ new[first + 1].k \in {"newline", "comment"}
            /\ (printer'.terminators[t].printed /\ lastPrint'.outcome # "finished") =>
                 printer'.indent = printer.indent + (IF printer.format.compact \/ printer.format.concise THEN 0 ELSE 1)

\* The end of a printTerminatorless call: `)` is the last thing it writes
\* exactly when its `(` was written.
ClosingStep ==
  (/\ lastPrint'.outcome = "finished"
   /\ lastPrint'.call.method = "printTerminatorless"
   /\ Last(frames).terminator # Null) =>
     LET new == Written
     IN printer'.terminators[Last(frames).terminator].printed <=>
          (new # <<>> /\ Last(new) = [k |-> "token", s |-> <<")">>])

NewlyPrinted == {t \in 1..Len(printer'.terminators) : printer'.terminators[t].printed /\ (t > Len(printer.terminators) \/ ~printer.terminators[t].printed)}

\* The printTerminatorless call that returns in this step, if one does.
Returning == lastPrint'.outcome = "finished" /\ lastPrint'.call.method = "printTerminatorless" /\ Last(frames).terminator # Null

DeferNodes ==
  {Node("ExpressionStatement", 1, 1, <<3, 1>>, <<>>, <<3>>, FALSE),
   Node("Identifier", 0, 0, <<6, 1>>, <<>>, <<>>, FALSE),
   Node("Identifier", 1, 1, <<2>>, <<>>, <<2>>, FALSE)}

\* A new printer; the calls are enough for a word, a statement after it
\* and a word inside the statement.
InitDefer ==
  /\ printer \in
       {NewPrinter(Format(compact, FALSE, FALSE, FALSE, rejected)) :
          compact \in BOOLEAN, rejected \in {{}, {"c2"}}}
  /\ frames = <<>>
  /\ budget = MaxCalls + 1
  /\ lastPrint = NoPrint
  /\ IdleNotPrinter

NextDefer ==
  \/ \E node \in DeferNodes, noLineTerminatorAfter \in BOOLEAN :
       PrintNode(node, FALSE, noLineTerminatorAfter, 0)
  \/ PrintReturn
  \/ \E noLineTerminatorAfter \in BOOLEAN :
       Word(<<"a">>, noLineTerminatorAfter)

SpecDefer == InitDefer /\ [][NextDefer]_vars

\* How often the comment is written in a buffer.
WrittenIn(buf, id) == Cardinality({i \in 1..Len(buf) : buf[i].k = "comment" /\ \E j \in 1..Len(buf[i].s) : buf[i].s[j] = CommentTable[id].value})

\* The text holds a line terminator or `*/`.
MustDefer(id) == CommentTable[id].nl \/ CommentTable[id].end

\* A print call that prints its leading comments while the
\* no-line-terminator state is set (no parenthesis is written before them).
LeadingUnderNoLineTerminator == lastPrint'.outcome = "entered" /\ printer.noLineTerminator /\ ~Last(frames').shouldPrintParens

\* A comment the format rejects is never written, and a print call that
\* comes to it in its leading comments records it as printed.
RejectedRecorded ==
  /\ \A id \in 1..Len(CommentTable) :
       CommentTable[id].value \in printer'.format.rejectedComments => WrittenIn(printer'.buf, id) = 0
  /\ lastPrint'.outcome = "entered" =>
       LET list == lastPrint'.node.leadingComments
       IN \A k \in 1..Len(list) :
            (/\ CommentTable[list[k]].value \in printer.format.rejectedComments
             /\ ~CommentTable[list[k]].ignore
             /\ \A j \in 1..k : ~MustDefer(list[j])) =>
              list[k] \in printer'.printedComments

\* C25 as stated: while the no-line-terminator state is set, a comment whose
\* text holds a line terminator or `*/` is not written, is not recorded as
\* printed, and the comments after it in the list are not written at this
\* position; a comment the format rejects is recorded as printed and never
\* written.
C25_Original ==
  [][/\ LeadingUnderNoLineTerminator =>
          LET list == lastPrint'.node.leadingComments
          IN \A d \in 1..Len(list) :
               MustDefer(list[d]) =>
                 /\ WrittenIn(printer'.buf, list[d]) = WrittenIn(printer.buf, list[d])
                 /\ list[d] \in printer'.printedComments => list[d] \in printer.printedComments
                 /\ \A j \in (d + 1)..Len(list) :
                      WrittenIn(printer'.buf, list[j]) = WrittenIn(printer.buf, list[j])
     /\ RejectedRecorded]_vars

\* C25: the same for a comment that is neither flagged ignore nor already
\* printed; a comment that is flagged ignore or already printed is skipped
\* whatever its text, and the comments after it are still visited.
C25_Deferred ==
  [][/\ LeadingUnderNoLineTerminator =>
          LET list == lastPrint'.node.leadingComments
              Skipped(id) == CommentTable[id].ignore \/ id \in printer.printedComments
          IN \A d \in 1..Len(list) :
               /\ MustDefer(list[d]) =>
                    /\ WrittenIn(printer'.buf, list[d]) = WrittenIn(printer.buf, list[d])
                    /\ list[d] \in printer'.printedComments => list[d] \in printer.printedComments
               /\ (MustDefer(list[d]) /\ ~Skipped(list[d])) =>
                    \A j \in (d + 1)..Len(list) :
                      /\ WrittenIn(printer'.buf, list[j]) = WrittenIn(printer.buf, list[j])
                      /\ list[j] \in printer'.printedComments => list[j] \in printer.printedComments
               /\ (Skipped(list[d]) /\ \A j \in 1..d : Skipped(list[j])) =>
                    \A j \in (d + 1)..Len(list) :
                      (~Skipped(list[j]) /\ ~MustDefer(list[j]) /\ \A i \in (d + 1)..(j - 1) : Skipped(list[i])) =>
                        list[j] \in printer'.printedComments
     /\ RejectedRecorded]_vars

\* The comment with a line feed was deferred before the statement (it is a
\* leading comment of the node, printed under the no-line-terminator state,
\* and neither it nor the comment after it was written there) and was
\* written once after it, as a trailing comment.
C25_Witness ==
  /\ lastPrint.outcome = "finished"
  /\ lastPrint.node.leadingComments = <<3, 1>>
  /\ lastPrint.node.trailingComments = <<3>>
  /\ WrittenIn(Pieces, 3) = 1
  /\ WrittenIn(Pieces, 1) = 0
  /\ \E i \in 1..Len(Pieces) : Pieces[i].k = "word"

(***************************************************************************)
(*                     Printer: auxiliary comments                         *)
(***************************************************************************)

\* generate(ast) on a printer that prints nothing yet.
Generate(ast) ==
  /\ frames = <<>>
  /\ PrintFrom("generate", Null, FALSE, printer, ast, FALSE, FALSE, 0)

\* A statement (with a comment after it) and an identifier of the source
\* file, and an identifier a transform has added (it has no location).
AuxNodes ==
  {Node("ExpressionStatement", 1, 1, <<>>, <<>>, <<1>>, FALSE),
   Node("Identifier", 1, 1, <<>>, <<>>, <<>>, FALSE),
   Node("Identifier", 0, 0, <<>>, <<>>, <<>>, FALSE)}

\* The formats with both auxiliary comments, with auxiliaryCommentBefore
\* alone and with none.
InitAux ==
  /\ printer \in
       {NewPrinter(Format(compact, FALSE, FALSE, aux, {})) :
          compact \in BOOLEAN, aux \in BOOLEAN}
       \cup {NewPrinter([Format(FALSE, FALSE, FALSE, TRUE, {}) EXCEPT !.auxiliaryCommentAfter = ""])}
  /\ frames = <<>>
  /\ budget = MaxCalls + 2
  /\ lastPrint = NoPrint
  /\ IdleNotPrinter

NextAux ==
  \/ \E ast \in AuxNodes : Generate(ast)
  \/ \E node \in AuxNodes : frames # <<>> /\ PrintNode(node, FALSE, FALSE, 0)
  \/ PrintReturn
  \/ Word(<<"a">>, FALSE)

SpecAux == InitAux /\ [][NextAux]_vars

IsAuxComment(p, text) == p.k = "comment" /\ text # "" /\ \E i \in 1..Len(p.s) : p.s[i] = text

\* The auxiliary comments of a buffer, in the order written.
AuxWritten(buf, format) == SelectSeq(buf, LAMBDA p : IsAuxComment(p, format.auxiliaryCommentBefore) \/ IsAuxComment(p, format.auxiliaryCommentAfter))

\* The written auxiliary comments alternate, the before comment first.
Alternate(buf, format) ==
  LET aux == AuxWritten(buf, format)
  IN \A i \in 1..Len(aux) :
       IsAuxComment(aux[i], IF i % 2 = 1 THEN format.auxiliaryCommentBefore ELSE format.auxiliaryCommentAfter)

\* What entering a node and the end of generate do with the auxiliary
\* comments: a before transition on entering a node without location from
\* a context with one when no after comment is due, an after transition on
\* entering a node with location when one is due, and none due when
\* generate returns.
AuxTransitions ==
  LET format == printer.format
      due == printer.printAuxAfterOnNextUserNode
      due1 == printer'.printAuxAfterOnNextUserNode
      new == Written
      node == lastPrint'.node
      Before(p) == IsAuxComment(p, format.auxiliaryCommentBefore)
      After(p) == IsAuxComment(p, format.auxiliaryCommentAfter)
      First(Is(_)) == \A i \in 1..Len(new) : Is(new[i]) \/ new[i].k \in {"space", "indent", "newline"}
      Count(Is(_)) == Cardinality({i \in 1..Len(new) : Is(new[i])})
  IN /\ (format.auxiliaryCommentBefore # "" /\ format.auxiliaryCommentAfter # "") =>
          Alternate(printer'.buf, format)
     /\ lastPrint'.outcome = "entered" =>
          /\ (~node.hasLoc /\ ~printer.insideAux /\ ~due) =>
               /\ due1
               /\ Count(After) = 0
               /\ format.auxiliaryCommentBefore # "" => Count(Before) = 1 /\ First(Before)
          /\ (~node.hasLoc /\ (printer.insideAux \/ due)) =>
               due1 = due /\ Count(Before) = 0 /\ Count(After) = 0
          /\ (node.hasLoc /\ due) =>
               /\ ~due1
               /\ Count(Before) = 0
               /\ format.auxiliaryCommentAfter # "" => Count(After) = 1 /\ First(After)
          /\ (node.hasLoc /\ ~due) =>
               ~due1 /\ Count(Before) = 0 /\ Count(After) = 0
     /\ (lastPrint'.outcome = "finished" /\ lastPrint'.call.method = "generate") =>
          /\ ~due1
          /\ Count(Before) = 0
          /\ Count(After) = IF due /\ format.auxiliaryCommentAfter # "" THEN 1 ELSE 0
          /\ (format.auxiliaryCommentBefore # "" /\ format.auxiliaryCommentAfter # "") =>
               Len(AuxWritten(printer'.buf, format)) % 2 = 0
     /\ (lastPrint'.outcome = "finished" /\ lastPrint'.call.method = "print") =>
          due1 = due /\ Count(Before) = 0 /\ Count(After) = 0
     /\ lastPrint'.call.method = "word" =>
          /\ Count(Before) = 0
          /\ IF due /\ ~printer.insideAux
             THEN /\ ~due1
                  /\ format.auxiliaryCommentAfter # "" =>
                       /\ Count(After) = 1
                       /\ \E i, j \in 1..Len(new) : i < j /\ After(new[i]) /\ new[j].k = "word"
             ELSE due1 = due /\ Count(After) = 0

\* C26: the auxiliary comments alternate as above, and no output
\* that belongs to a node with location (a word its print method writes, a
\* comment of the node) is written while an after comment is due.
C26_AuxiliaryComments ==
  [][/\ AuxTransitions
     /\ (lastPrint'.call.method = "word" /\ Last(frames).node.hasLoc) =>
          ~printer'.printAuxAfterOnNextUserNode
     /\ (/\ lastPrint'.outcome = "finished"
         /\ Last(frames).node.hasLoc
         /\ printer.printAuxAfterOnNextUserNode) =>
          \A i \in 1..Len(Written) :
            Written[i].k = "comment" =>
              \/ IsAuxComment(Written[i], printer.format.auxiliaryCommentAfter)
              \/ \E j \in 1..(i - 1) : IsAuxComment(Written[j], printer.format.auxiliaryCommentAfter)]_vars

\* What holds of the words and of the entries into nodes (C26 without the
\* comments of a node with location): the auxiliary comments alternate, the
\* before comment first; the after comment is written once, before the
\* next word a node with location writes, when printing next enters a node
\* with location or at the end of generate, whichever comes first; when
\* generate returns, none is due and as many after as before comments are
\* written.
AuxiliaryCommentsAlternate == [][AuxTransitions]_vars

\* generate has returned; a node without location was printed between the
\* before and the after comment, and the after comment was written before
\* the next word of the statement around it.
AfterBeforeNextWord ==
  /\ lastPrint.outcome = "finished"
  /\ lastPrint.call.method = "generate"
  /\ lastPrint.node.hasLoc
  /\ Len(AuxWritten(Pieces, printer.format)) = 2
  /\ \E i \in 1..Len(Pieces) :
       /\ IsAuxComment(Pieces[i], "after")
       /\ \E j \in (i + 1)..Len(Pieces) :
            /\ Pieces[j].k = "word"
            /\ \A m \in (i + 1)..(j - 1) : Pieces[m].k \in {"space", "indent", "newline"}

(***************************************************************************)
(*                 Printer: indentation across print calls                 *)
(***************************************************************************)

PrintJoin(node, indented) ==
  PrintFrom("printJoin", Null, indented, printJoin(printer, indented), node, FALSE, FALSE, 0)

\* An expression flagged _compact with a comment before it, and one
\* without comments.
IndentNodes ==
  {Node("Identifier", 1, 1, <<1>>, <<>>, <<>>, TRUE),
   Node("Identifier", 1, 1, <<>>, <<>>, <<>>, FALSE)}

NextIndent ==
  \/ /\ frames = <<>>
     /\ PrintNode(Node("ExpressionStatement", 1, 1, <<>>, <<>>, <<>>, FALSE), FALSE, FALSE, 0)
  \/ \E node \in IndentNodes : frames # <<>> /\ PrintTerminatorless(node, FALSE)
  \/ \E node \in IndentNodes, indented \in BOOLEAN : frames # <<>> /\ PrintJoin(node, indented)
  \/ PrintReturn
  \/ Word(<<"a">>, FALSE)
  \/ Newline(1, TRUE)

SpecIndent == InitTerminatorless /\ [][NextIndent]_vars

\* C27: the indentation level is never negative, and when a print,
\* printJoin or printTerminatorless call returns, the indentation level,
\* the print stack and format.concise are what they were when it was
\* called.
C27_Indentation ==
  [][/\ printer'.indent >= 0
     /\ lastPrint'.outcome = "finished" =>
          LET entry == Last(frames).entry
          IN /\ printer'.indent = entry.indent
             /\ printer'.printStack = entry.printStack
             /\ printer'.format.concise = entry.concise]_vars

\* The print stack and format.concise are restored by every return.
StackAndConciseRestored ==
  [][lastPrint'.outcome = "finished" =>
       LET entry == Last(frames).entry
       IN /\ printer'.printStack = entry.printStack
          /\ printer'.format.concise = entry.concise]_vars

(***************************************************************************)
(*          Printer: comments while no line terminator may come            *)
(***************************************************************************)

\* Nodes of line 1 (no catch-up of the node itself writes a line feed) with
\* line and block comments; c7 is a line comment of line 2.
CommentedNodes ==
  {Node("Identifier", 1, 1, <<2>>, <<>>, <<7>>, FALSE),
   Node("ExpressionStatement", 1, 1, <<1>>, <<>>, <<2, 1>>, FALSE),
   Node("Identifier", 0, 0, <<2>>, <<>>, <<1>>, FALSE)}

NextComments ==
  \/ \E node \in CommentedNodes, noLineTerminatorAfter \in BOOLEAN :
       PrintNode(node, FALSE, noLineTerminatorAfter, 0)
  \/ PrintReturn
  \/ \E noLineTerminatorAfter \in BOOLEAN :
       Word(<<"a">>, noLineTerminatorAfter)

SpecComments == InitTerminatorless /\ [][NextComments]_vars

\* The step prints comments while the no-line-terminator state is set: the
\* leading comments of a print call made in that state, or the trailing
\* comments of a node after which no line terminator may come.
CommentsUnderNoLineTerminator ==
  /\ \E i \in 1..Len(Written) : Written[i].k = "comment"
  /\ \/ lastPrint'.outcome = "entered" /\ printer.noLineTerminator
     \/ lastPrint'.outcome = "finished" /\ (printer.noLineTerminator \/ Last(frames).noLineTerminatorAfter)

\* Every comment the step writes is in block form and holds no line feed.
BlockForm ==
  \A i \in 1..Len(Written) :
    Written[i].k = "comment" =>
      /\ SubSeq(Written[i].s, 1, 2) = <<"/", "*">>
      /\ \A j \in 1..Len(Written[i].s) : Written[i].s[j] # "\n"

\* C28: while the no-line-terminator state is set, printing comments
\* writes no line feed, in every format: the comments are written in block
\* form and no newline comes before, between or after them.
C28_NoLineFeed ==
  [][CommentsUnderNoLineTerminator =>
       /\ BlockForm
       /\ \A i \in 1..Len(Written) : Written[i].k # "newline"]_vars

\* The same in the formats without retainLines.
NoLineFeedUnlessRetainLines ==
  [][(CommentsUnderNoLineTerminator /\ ~printer.format.retainLines) =>
       /\ BlockForm
       /\ \A i \in 1..Len(Written) : Written[i].k # "newline"]_vars

\* With retainLines the comments are still written in block form.
BlockFormUnderNoLineTerminator == [][CommentsUnderNoLineTerminator => BlockForm]_vars

(***************************************************************************)
(*        preset-env: the module plugins and the include/exclude sets      *)
(***************************************************************************)

\* How often a name of the set is in the list.
CountNames(list, names) == Cardinality({i \in 1..Len(list) : list[i] \in names})

\* C29: the list getModulesPluginNames returns holds exactly one of
\* transform-dynamic-import and syntax-dynamic-import, exactly one of
\* transform-export-namespace-from and syntax-export-namespace-from, a
\* module transform only when modules is a known format and
\* shouldTransformESM is true, syntax-top-level-await exactly when
\* shouldParseTopLevelAwait is true, and syntax-import-meta at its end.
C29_ModulesPluginNames ==
  (result # NoResult /\ args.fn = "getModulesPluginNames") =>
    LET names == result[1].names
        known == /\ args.modules # "false"
                 /\ args.modules \in DOMAIN args.transformations
        transforms == {moduleTransformations[m] : m \in DOMAIN moduleTransformations}
    IN /\ CountNames(names, {"transform-dynamic-import", "syntax-dynamic-import"}) = 1
       /\ CountNames(names, {"transform-export-namespace-from", "syntax-export-namespace-from"}) = 1
       /\ CountNames(names, transforms) > 0 => known /\ args.shouldTransformESM
       /\ CountNames(names, {"syntax-top-level-await"}) = (IF args.shouldParseTopLevelAwait THEN 1 ELSE 0)
       /\ names[Len(names)] = "syntax-import-meta"
       /\ CountNames(names, {"syntax-import-meta"}) = 1

\* A known format with every transformation requested: the module
\* transform, both transforms, the top-level-await syntax and import-meta.
C29_Witness ==
  /\ result # NoResult
  /\ args.fn = "getModulesPluginNames"
  /\ result[1].names = <<"transform-modules-amd", "transform-dynamic-import", "transform-export-namespace-from", "syntax-top-level-await", "syntax-import-meta">>

\* C30: transformIncludesAndExcludes puts every entry into exactly one of
\* the two sets, builtIns when it starts with es., es6., es7., esnext. or
\* web. and plugins otherwise; the sets are disjoint, their union is the
\* set of the entries, and all is the list given.
C30_Partition ==
  (result # NoResult /\ args.fn = "transformIncludesAndExcludes") =>
    LET r == result[1]
        Prefixed(entry) == Len(entry) > 1 /\ entry[1] \in {"es", "es6", "es7", "esnext", "web"}
    IN /\ r.all = args.opts
       /\ r.builtIns \cap r.plugins = {}
       /\ r.builtIns \cup r.plugins = Range(args.opts)
       /\ \A i \in 1..Len(args.opts) :
            /\ Prefixed(args.opts[i]) => args.opts[i] \in r.builtIns
            /\ ~Prefixed(args.opts[i]) => args.opts[i] \in r.plugins

\* The list <<es, web.a>>: `es` has no dot and is a plugin, web.a a
\* built-in.
C30_Witness ==
  /\ result # NoResult
  /\ args.fn = "transformIncludesAndExcludes"
  /\ args.opts = <<(<<"es">>), <<"web", "a">>>>
  /\ result[1].plugins = {<<"es">>}
  /\ result[1].builtIns = {<<"web", "a">>}

=============================================================================
